---------------------------- MODULE Spec2Model ----------------------------
(***************************************************************************)
(* Model of the "Open Link in New Tab" extension: the background script    *)
(* (settings, exclusion predicate, opening queue and its async worker) and *)
(* the URL helpers of utils/urlChecker.ts.                                 *)
(*                                                                         *)
(* Strings are sequences of one-character strings, so that trimming,       *)
(* splitting, prefixing and the regular expressions are computed on the    *)
(* characters as the code computes them.                                   *)
(***************************************************************************)
EXTENDS Integers, Sequences, FiniteSets, TLC

(***************************************************************************)
(* Characters and string helpers                                           *)
(***************************************************************************)
LowerSeq == <<"a","b","c","d","e","f","g","h","i","j","k","l","m",
              "n","o","p","q","r","s","t","u","v","w","x","y","z">>

UpperSeq == <<"A","B","C","D","E","F","G","H","I","J","K","L","M",
              "N","O","P","Q","R","S","T","U","V","W","X","Y","Z">>

Lowers == {LowerSeq[i] : i \in DOMAIN LowerSeq}

Uppers == {UpperSeq[i] : i \in DOMAIN UpperSeq}

Letters == Lowers \cup Uppers

Digits == {"0","1","2","3","4","5","6","7","8","9"}

AlNum == Letters \cup Digits

\* \s of a JavaScript regular expression, and what String.trim() strips
WhiteSpace == {" ", "\t", "\n", "\r"}

\* \w of a JavaScript regular expression
WordChars == AlNum \cup {"_"}

\* case folding done by the /i flag
ToLower(c) ==
  IF c \in Uppers
    THEN LowerSeq[CHOOSE i \in DOMAIN UpperSeq : UpperSeq[i] = c]
    ELSE c

LowerStr(s) == [i \in DOMAIN s |-> ToLower(s[i])]

\* the characters of s after the first p ones
Drop(s, p) == SubSeq(s, p + 1, Len(s))

\* lit occurs in s right after the first p characters (compared as written)
HasAt(s, p, lit) ==
  /\ p + Len(lit) <= Len(s)
  /\ \A i \in 1..Len(lit) : s[p + i] = lit[i]

\* the same, ignoring case
HasAtI(s, p, lit) ==
  /\ p + Len(lit) <= Len(s)
  /\ \A i \in 1..Len(lit) : ToLower(s[p + i]) = ToLower(lit[i])

\* String.prototype.trim
Trim(s) ==
  LET keep == {i \in DOMAIN s : s[i] \notin WhiteSpace}
      Min(S) == CHOOSE x \in S : \A y \in S : x <= y
      Max(S) == CHOOSE x \in S : \A y \in S : x >= y
  IN  IF keep = {} THEN <<>> ELSE SubSeq(s, Min(keep), Max(keep))

\* String.prototype.split(/\r?\n/)
RECURSIVE SplitLines(_)
SplitLines(s) ==
  LET nl == {i \in DOMAIN s : s[i] = "\n"}
  IN  IF nl = {}
        THEN <<s>>
        ELSE LET i == CHOOSE x \in nl : \A y \in nl : x <= y
                 e == IF i > 1 /\ s[i - 1] = "\r" THEN i - 2 ELSE i - 1
             IN  <<SubSeq(s, 1, e)>> \o SplitLines(Drop(s, i))

(***************************************************************************)
(* Regular-expression pieces.  Each piece maps a set P of positions (the   *)
(* number of characters consumed so far) to the set of positions at which  *)
(* a match of the piece starting in P can end; backtracking is then the    *)
(* union over all the ways to match.                                       *)
(***************************************************************************)
\* a literal, under /i
Lit(s, P, lit) == {p + Len(lit) : p \in {q \in P : HasAtI(s, q, lit)}}

\* [C]{lo,hi}
Rep(s, P, C, lo, hi) ==
  UNION {{p + k : k \in {j \in lo..hi :
                          /\ p + j <= Len(s)
                          /\ \A i \in 1..j : s[p + i] \in C}} : p \in P}

\* [C]*
Star(s, P, C) == Rep(s, P, C, 0, Len(s))

\* [^/\s]*
NotSlashSpaceStar(s, P) ==
  UNION {{p + k : k \in {j \in 0..(Len(s) - p) :
                          \A i \in 1..j : s[p + i] \notin (WhiteSpace \cup {"/"})}}
         : p \in P}

\* (https?:\/\/|file:\/\/|www\.)
SchemePrefix(s, P) ==
  Lit(s, P, <<"h","t","t","p",":","/","/">>)
    \cup Lit(s, P, <<"h","t","t","p","s",":","/","/">>)
    \cup Lit(s, P, <<"f","i","l","e",":","/","/">>)
    \cup Lit(s, P, <<"w","w","w",".">>)

\* [a-zA-Z0-9][-a-zA-Z0-9]*
Label(s, P) == Star(s, Rep(s, P, AlNum, 1, 1), AlNum \cup {"-"})

\* \.[a-zA-Z0-9][-a-zA-Z0-9]*
DotLabel(s, P) == Label(s, Lit(s, P, <<".">>))

\* (\.[a-zA-Z0-9][-a-zA-Z0-9]*)*
RECURSIVE DotLabelStar(_, _)
DotLabelStar(s, P) ==
  LET Q == P \cup DotLabel(s, P)
  IN  IF Q = P THEN P ELSE DotLabelStar(s, Q)

\* \d{1,3}\.\d{1,3}\.\d{1,3}\.\d{1,3}
DottedQuad(s, P) ==
  LET d(X) == Rep(s, X, Digits, 1, 3)
      dot(X) == Lit(s, X, <<".">>)
  IN  d(dot(d(dot(d(dot(d(P)))))))

\* localhost
LocalHost(s, P) == Lit(s, P, <<"l","o","c","a","l","h","o","s","t">>)

\* (:\d+)?
OptPort(s, P) == P \cup Rep(s, Lit(s, P, <<":">>), Digits, 1, Len(s))

\* (\/[^/\s]*)*
RECURSIVE PathStar(_, _)
PathStar(s, P) ==
  LET Q == P \cup NotSlashSpaceStar(s, Lit(s, P, <<"/">>))
  IN  IF Q = P THEN P ELSE PathStar(s, Q)

\* \b : exactly one of the characters around position p is a word character
WordBoundary(s, P) ==
  {p \in P : (p >= 1 /\ s[p] \in WordChars)
               # (p < Len(s) /\ s[p + 1] \in WordChars)}

StrictHostChars == AlNum \cup {"-","@",":","%",".","_","+","~","#","="}

StrictTldChars == AlNum \cup {"(",")"}

\* the 'strict' pattern; the trailing starred group matches the empty string
StrictPattern(s) ==
  LET host == Rep(s, SchemePrefix(s, {0}), StrictHostChars, 1, 256)
      tld  == Rep(s, Lit(s, host, <<".">>), StrictTldChars, 1, 6)
  IN  WordBoundary(s, tld) # {}

\* the 'standard' pattern: not anchored at the end
StandardPattern(s) ==
  LET start == {0} \cup SchemePrefix(s, {0})
      host  == LocalHost(s, start) \cup DottedQuad(s, start)
                 \cup DotLabelStar(s, DotLabel(s, Label(s, start)))
  IN  PathStar(s, OptPort(s, host)) # {}

\* the 'relaxed' pattern without the $ at its end
RelaxedPatternUnanchored(s) ==
  LET start == {0} \cup SchemePrefix(s, {0})
      host  == DotLabelStar(s, Label(s, start)) \cup LocalHost(s, start)
                 \cup DottedQuad(s, start)
  IN  PathStar(s, OptPort(s, host)) # {}

\* the 'relaxed' pattern: anchored at the end by $
RelaxedPattern(s) ==
  LET start == {0} \cup SchemePrefix(s, {0})
      host  == DotLabelStar(s, Label(s, start)) \cup LocalHost(s, start)
                 \cup DottedQuad(s, start)
  IN  Len(s) \in PathStar(s, OptPort(s, host))

(***************************************************************************)
(* utils/urlChecker.ts                                                     *)
(***************************************************************************)
PatternTypes == {"strict", "standard", "relaxed"}

isValidUrl(text, patternType) ==
  LET trimmedText == Trim(text)
  IN  IF trimmedText = <<>>
        THEN FALSE
        ELSE CASE patternType = "strict"  -> StrictPattern(trimmedText)
               [] patternType = "relaxed" -> RelaxedPattern(trimmedText)
               [] OTHER                   -> StandardPattern(trimmedText)

\* normalizeUrl taking http:// and file:// alone for an existing protocol
normalizeUrlHttpOnly(url) ==
  LET trimmedUrl == Trim(url)
      hasProtocol ==
        Lit(trimmedUrl, {0}, <<"h","t","t","p",":","/","/">>)
          \cup Lit(trimmedUrl, {0}, <<"f","i","l","e",":","/","/">>) # {}
  IN  IF hasProtocol
        THEN trimmedUrl
        ELSE IF LocalHost(trimmedUrl, {0}) # {}
               THEN <<"h","t","t","p",":","/","/">> \o trimmedUrl
               ELSE <<"h","t","t","p","s",":","/","/">> \o trimmedUrl

normalizeUrl(url) ==
  LET trimmedUrl == Trim(url)
      hasProtocol ==
        Lit(trimmedUrl, {0}, <<"h","t","t","p",":","/","/">>)
          \cup Lit(trimmedUrl, {0}, <<"h","t","t","p","s",":","/","/">>)
          \cup Lit(trimmedUrl, {0}, <<"f","i","l","e",":","/","/">>) # {}
  IN  IF hasProtocol
        THEN trimmedUrl
        ELSE IF LocalHost(trimmedUrl, {0}) # {}
               THEN <<"h","t","t","p",":","/","/">> \o trimmedUrl
               ELSE <<"h","t","t","p","s",":","/","/">> \o trimmedUrl

\* extractUrls keeping the first of the lines that are equal
extractUrlsDistinct(text, patternType) ==
  LET trimmed == [i \in DOMAIN SplitLines(text) |-> Trim(SplitLines(text)[i])]
      NonEmpty(l) == l # <<>>
      Valid(l) == isValidUrl(l, patternType)
      lines == SelectSeq(trimmed, NonEmpty)
      kept == SelectSeq(lines, Valid)
      first == {i \in DOMAIN kept : \A j \in 1..(i - 1) : kept[j] # kept[i]}
      RECURSIVE Pick(_)
      Pick(i) == IF i > Len(kept) THEN <<>>
                 ELSE (IF i \in first THEN <<normalizeUrl(kept[i])>> ELSE <<>>)
                        \o Pick(i + 1)
  IN  Pick(1)

extractUrls(text, patternType) ==
  LET trimmed == [i \in DOMAIN SplitLines(text) |-> Trim(SplitLines(text)[i])]
      NonEmpty(l) == l # <<>>
      Valid(l) == isValidUrl(l, patternType)
      lines == SelectSeq(trimmed, NonEmpty)
      kept == SelectSeq(lines, Valid)
  IN  [i \in DOMAIN kept |-> normalizeUrl(kept[i])]

(***************************************************************************)
(* new URL(url).hostname, as isExcludedDomain uses it: the URL parser of   *)
(* the platform restricted to what decides the host name.  ok = FALSE is   *)
(* the TypeError the constructor throws.                                   *)
(***************************************************************************)
SchemeChars == AlNum \cup {"+", "-", "."}

SpecialSchemes == {<<"h","t","t","p">>, <<"h","t","t","p","s">>,
                   <<"f","t","p">>, <<"w","s">>, <<"w","s","s">>,
                   <<"f","i","l","e">>}

\* characters that may not occur in a host name
ForbiddenHostChars ==
  {" ", "#", "/", ":", "<", ">", "?", "@", "[", "\\", "]", "^", "|", "%"}

\* s without the characters in C
Without(s, C) == LET Keep(c) == c \notin C IN SelectSeq(s, Keep)

\* the longest prefix of s made of characters in C
RECURSIVE PrefixIn(_, _)
PrefixIn(s, C) ==
  IF s # <<>> /\ Head(s) \in C
    THEN <<Head(s)>> \o PrefixIn(Tail(s), C)
    ELSE <<>>

\* the longest prefix of s made of characters outside C
RECURSIVE PrefixNotIn(_, _)
PrefixNotIn(s, C) ==
  IF s # <<>> /\ Head(s) \notin C
    THEN <<Head(s)>> \o PrefixNotIn(Tail(s), C)
    ELSE <<>>

ParseFailure == [ok |-> FALSE, hostname |-> <<>>]

\* the part of the authority after its last "@"
HostPort(authority) ==
  LET ats == {i \in DOMAIN authority : authority[i] = "@"}
  IN  IF ats = {}
        THEN authority
        ELSE Drop(authority, CHOOSE i \in ats : \A j \in ats : j <= i)

\* host and port checked: the host is lower-cased
ParseHost(host, port, special, isFile) ==
  IF \/ special /\ ~isFile /\ host = <<>>
     \/ \E i \in DOMAIN host : host[i] \in ForbiddenHostChars
     \/ \E i \in 2..Len(port) : port[i] \notin Digits
    THEN ParseFailure
    ELSE [ok |-> TRUE, hostname |-> LowerStr(host)]

\* host:port split at the first ":"
ParseHostPort(hostport, host, special, isFile) ==
  ParseHost(host, Drop(hostport, Len(host)), special, isFile)

\* the authority runs up to the first "/", "?" or "#" ("\" too in a special URL)
ParseAuthority(rest, slashes, special, isFile) ==
  IF (~special /\ slashes = <<>>) \/ (isFile /\ Len(slashes) < 2)
    THEN [ok |-> TRUE, hostname |-> <<>>]
    ELSE ParseHostPort(
           HostPort(PrefixNotIn(Drop(rest, Len(slashes)),
                                IF special THEN {"/", "\\", "?", "#"}
                                           ELSE {"/", "?", "#"})),
           PrefixNotIn(HostPort(PrefixNotIn(Drop(rest, Len(slashes)),
                                IF special THEN {"/", "\\", "?", "#"}
                                           ELSE {"/", "?", "#"})), {":"}),
           special, isFile)

\* the slashes after "scheme:": any run of "/" and "\" in a special URL,
\* "//" or nothing otherwise
ParseSlashes(rest, special, isFile) ==
  ParseAuthority(rest,
                 IF special
                   THEN PrefixIn(rest, {"/", "\\"})
                   ELSE IF HasAt(rest, 0, <<"/","/">>) THEN <<"/","/">> ELSE <<>>,
                 special, isFile)

\* a URL without a scheme cannot be parsed (there is no base URL)
ParseScheme(s, scheme) ==
  IF scheme # <<>> /\ scheme[1] \in Letters /\ HasAt(s, Len(scheme), <<":">>)
    THEN ParseSlashes(Drop(s, Len(scheme) + 1),
                      LowerStr(scheme) \in SpecialSchemes,
                      LowerStr(scheme) = <<"f","i","l","e">>)
    ELSE ParseFailure

\* leading and trailing spaces and all tabs and newlines are dropped first
ParseInput(s) == ParseScheme(s, PrefixIn(s, SchemeChars))

ParseHostname(url) == ParseInput(Without(Trim(url), {"\t", "\n", "\r"}))

\* str.replace(/^www\./, '')
StripWww(str) ==
  IF HasAt(str, 0, <<"w","w","w",".">>) THEN Drop(str, 4) ELSE str

\* str.endsWith(suffix)
EndsWith(str, suffix) ==
  /\ Len(suffix) <= Len(str)
  /\ HasAt(str, Len(str) - Len(suffix), suffix)

\* the elements of a sequence
Range(seq) == {seq[i] : i \in DOMAIN seq}

\* isExcludedDomain answering true when new URL(url) throws
isExcludedDomainFailsClosed(url, excludedDomains) ==
  IF Len(excludedDomains) = 0
    THEN FALSE
    ELSE LET parsed == ParseHostname(url)
             normalizedHostname == StripWww(parsed.hostname)
         IN  IF ~parsed.ok
               THEN TRUE
               ELSE \E domain \in Range(excludedDomains) :
                      LET cleanDomain == StripWww(domain)
                      IN  \/ normalizedHostname = cleanDomain
                          \/ EndsWith(normalizedHostname, <<".">> \o cleanDomain)

\* isExcludedDomain comparing the end of the host name with the entry itself,
\* without the dot in front of it
isExcludedDomainBareSuffix(url, excludedDomains) ==
  IF Len(excludedDomains) = 0
    THEN FALSE
    ELSE LET parsed == ParseHostname(url)
             normalizedHostname == StripWww(parsed.hostname)
         IN  IF ~parsed.ok
               THEN FALSE
               ELSE \E domain \in Range(excludedDomains) :
                      LET cleanDomain == StripWww(domain)
                      IN  \/ normalizedHostname = cleanDomain
                          \/ EndsWith(normalizedHostname, cleanDomain)

isExcludedDomain(url, excludedDomains) ==
  IF Len(excludedDomains) = 0
    THEN FALSE
    ELSE LET parsed == ParseHostname(url)
             normalizedHostname == StripWww(parsed.hostname)
         IN  IF ~parsed.ok
               THEN FALSE
               ELSE \E domain \in Range(excludedDomains) :
                      LET cleanDomain == StripWww(domain)
                      IN  \/ normalizedHostname = cleanDomain
                          \/ EndsWith(normalizedHostname, <<".">> \o cleanDomain)

(***************************************************************************)
(* Inputs: the link URLs, selection texts, exclusion lists and settings    *)
(* the pages, the popup and the storage can hand to the background script. *)
(***************************************************************************)
Https == <<"h","t","t","p","s",":","/","/">>

DomainA == <<"a",".","i","o">>

DomainB == <<"b",".","o","r","g">>

\* https://a.io/x
UrlA == Https \o DomainA \o <<"/","x">>

\* https://www.b.org/
UrlWwwB == Https \o <<"w","w","w",".">> \o DomainB \o <<"/">>

\* href values of links, as the browser resolves them
LinkUrls == {UrlA, UrlWwwB}

\* two lines: "a.io/x" and "https://www.b.org/"
TextTwoLines == DomainA \o <<"/","x","\n">> \o UrlWwwB

\* a sentence: "see a.io/x"
TextSentence == <<"s","e","e"," ">> \o DomainA \o <<"/","x">>

Texts == {TextTwoLines, TextSentence}

\* the sentence "visit example.com today"
TextVisit ==
  <<"v","i","s","i","t"," ","e","x","a","m","p","l","e",".","c","o","m",
    " ","t","o","d","a","y">>

\* two lines, the first no URL: "hi" and "a.io/x"
TextNoUrlFirst == <<"h","i","\n">> \o DomainA \o <<"/","x">>

\* the same line twice: "a.io/x" and "a.io/x"
TextDuplicate == DomainA \o <<"/","x","\n">> \o DomainA \o <<"/","x">>

\* a domain followed by a word: "b.org x"
TextTrailingWord == DomainB \o <<" ","x">>

\* the selections sent with checkSelection and openMultipleUrls in
\* SpecSelection
SelectionTexts == {TextTwoLines, TextVisit, TextNoUrlFirst}

\* the texts of the openMultipleUrls messages of SpecMultiOpen
MultiOpenTexts == SelectionTexts \cup {TextDuplicate, TextTrailingWord}

\* a selected line: "a.io/x"
TextPath == DomainA \o <<"/","x">>

\* what the user can have selected in the page (<<>>: nothing)
PageSelections == {<<>>, TextPath, UrlWwwB}

\* linkElement.href of the elements the user right-clicks (<<>>: no link)
PageLinks == {<<>>, UrlA}

\* window.location.href
PageLocation == Https \o DomainA \o <<"/">>

\* linkElement.href of links that are not to be opened: a javascript:
\* pseudo-URL, the fragment "#", about:blank, pages of the browser and of
\* extensions, and the page's own URL followed by "#"
RejectedHrefs ==
  {<<"j","a","v","a","s","c","r","i","p","t",":","v","o","i","d","(","0",")">>,
   <<"#">>,
   <<"a","b","o","u","t",":","b","l","a","n","k">>,
   <<"c","h","r","o","m","e",":","/","/","s","e","t","t","i","n","g","s">>,
   <<"c","h","r","o","m","e","-","e","x","t","e","n","s","i","o","n",":","/","/","i","d","/">>,
   <<"a","b","o","u","t",":","c","o","n","f","i","g">>,
   <<"m","o","z","-","e","x","t","e","n","s","i","o","n",":","/","/","i","d","/">>,
   PageLocation \o <<"#">>}

\* a data: URL
DataHref == <<"d","a","t","a",":",",","x">>

\* linkElement.href of the elements the right button is pressed on in
\* SpecLinks
LinkHrefs == RejectedHrefs \cup {<<>>, DataHref, UrlA}

\* event.button: the main and the secondary button
Buttons == {0, 2}

\* message.requestId of the directLinkClick messages
RequestIds == {"req_1_a", "req_2_b"}

ExclusionLists == {<<>>, <<DomainB>>}

\* the host "example.com"
DomainExample == <<"e","x","a","m","p","l","e",".","c","o","m">>

\* white space in front of a string handed to a URL helper
LexerLeads ==
  {<<>>,
   <<" ">>}

\* its scheme or www. prefix
LexerSchemes ==
  {<<>>,
   <<"h","t","t","p",":","/","/">>,
   <<"h","t","t","p","s",":","/","/">>,
   <<"H","T","T","P","S",":","/","/">>,
   <<"f","i","l","e",":","/","/">>,
   <<"f","t","p",":","/","/">>,
   <<"m","a","i","l","t","o",":">>,
   <<"w","w","w",".">>}

\* its host
LexerHosts ==
  {<<"e","x","a","m","p","l","e",".","c","o","m">>,
   <<"E","x","a","m","p","l","e",".","c","o","m">>,
   <<"s","u","b",".","e","x","a","m","p","l","e",".","c","o","m">>,
   <<"n","o","t","e","x","a","m","p","l","e",".","c","o","m">>,
   <<"w","w","w",".","e","x","a","m","p","l","e",".","c","o","m">>,
   <<"l","o","c","a","l","h","o","s","t">>,
   <<"l","o","c","a","l","h","o","s","t",":","8","0">>,
   <<"b",".","o","r","g"," ","x">>}

\* what follows the host
LexerTails ==
  {<<>>,
   <<"/","x">>,
   <<" ">>,
   <<"\n">>}

\* the strings handed to normalizeUrl and isExcludedDomain
LexerStrings ==
  {lead \o scheme \o host \o tail :
     lead \in LexerLeads, scheme \in LexerSchemes, host \in LexerHosts,
     tail \in LexerTails}

\* settings.excludedDomains as isExcludedDomain finds it
LexerExclusionLists ==
  {<<>>, <<DomainExample>>, <<<<"w","w","w",".">> \o DomainExample>>,
   <<DomainB, DomainExample>>}

\* the lines of the texts handed to extractUrls: a bare domain with a path,
\* a URL with white space around it, a word, an empty line, a blank line,
\* localhost
LexerLines ==
  {<<"a",".","i","o","/","x">>,
   <<" ","h","t","t","p","s",":","/","/","w","w","w",".","b",".","o","r","g","/"," ">>,
   <<"h","i">>,
   <<>>,
   <<" ">>,
   <<"l","o","c","a","l","h","o","s","t">>}

\* the line breaks of a text
LineBreaks == {<<"\n">>, <<"\r","\n">>}

\* lines in one text handed to extractUrls
MaxLines == 3

\* the sequences of at most MaxLines lines
LexerLineSeqs == UNION {[1..n -> LexerLines] : n \in 1..MaxLines}

\* lines.join(break)
RECURSIVE Join(_, _)
Join(lines, break) ==
  IF Len(lines) = 1
    THEN lines[1]
    ELSE lines[1] \o break \o Join(Tail(lines), break)

\* non-URL text put behind a string: " today"
TrailingText == <<" ","t","o","d","a","y">>

MENU_ID == "openLinkInNewTab"

MULTI_URL_MENU_ID == "openMultipleUrls"

\* the defaults of the settings object (the advanced thresholds, debugMode
\* and activateTabs take no part in queueing and are left out)
DefaultSettings ==
  [enableExtension     |-> TRUE,
   supportMultipleUrls |-> TRUE,
   excludedDomains     |-> <<>>,
   directLinkOpen      |-> TRUE,
   urlPatternType      |-> "standard"]

\* what storage.sync.get can deliver: every key, stored or defaulted
StoredSettings ==
  [enableExtension     : BOOLEAN,
   supportMultipleUrls : BOOLEAN,
   excludedDomains     : ExclusionLists,
   directLinkOpen      : BOOLEAN,
   urlPatternType      : PatternTypes]

\* the payloads of settingsUpdated the popup sends: the toggles, the
\* exclusion list, the pattern type, or the defaults
PartialSettings ==
  [enableExtension : BOOLEAN, directLinkOpen : BOOLEAN,
   supportMultipleUrls : BOOLEAN]
    \cup [excludedDomains : ExclusionLists]
    \cup [urlPatternType : PatternTypes]
    \cup {DefaultSettings}

\* Object.assign(settings, partial)
Assign(target, partial) ==
  [k \in DOMAIN target |-> IF k \in DOMAIN partial THEN partial[k] ELSE target[k]]

(***************************************************************************)
(* Bounds of the model                                                     *)
(***************************************************************************)
\* URLs pushed on the queue in one run of Spec and SpecEnabled
MaxEnqueues == 3

\* URLs pushed on the queue in one run of SpecIntents
MaxIntentEnqueues == 2

\* URLs pushed on the queue in one run of SpecSelection
MaxSelectionEnqueues == 2

\* URLs pushed on the queue in one run of SpecMultiOpen
MaxMultiOpenEnqueues == 3

\* right-clicks in one run of SpecDetector
MaxRightClicks == 2

\* loads of the page in one run of SpecSettings
MaxPageLoads == 1

\* notifications of a change of enableExtension under way at one time
MaxNotifications == 2

\* injections of the content script by tabs.onActivated in one run of
\* SpecActivation
MaxActivations == 1

\* steps of the clock in one run of SpecClick
MaxTicks == 2

\* milliseconds in one step of the clock
TickMs == 150

\* let CLICK_DISTANCE_THRESHOLD, let CLICK_TIME_THRESHOLD
CLICK_DISTANCE_THRESHOLD == 5
CLICK_TIME_THRESHOLD == 300

\* clientX, clientY of the mouse events
PointerPositions == {<<100, 100>>, <<102, 101>>, <<130, 100>>}

\* event.target of the mouse events: a link, the paragraph it is in, and a
\* paragraph next to that one
PageTargets == {"a", "p", "aside"}

\* Node.contains: a node contains itself and its descendants
Contains(node, other) ==
  \/ node = other
  \/ node = "p" /\ other = "a"

(***************************************************************************)
(* State of the background script                                          *)
(***************************************************************************)
VARIABLES
  settings,            \* the settings object
  previousEnableState, \* let previousEnableState
  openingQueue,        \* let openingQueue: entries [url, n], n the enqueue number
  isProcessingQueue,   \* let isProcessingQueue
  workers,             \* suspended processUrlQueue calls: [pc, n]
  menuVisible,         \* visibility of the two context-menu entries
  loadPending,         \* loadSettings awaits the callback of storage.sync.get
  menuSends,           \* the texts of the menu handler's tabs.sendMessage calls not yet settled
  lastResponse,        \* the last response passed to sendResponse
  enqueued,            \* history: number of URLs pushed so far
  created,             \* history: enqueue numbers of the tabs.create calls, in call order
  discarded,           \* history: entries waiting when a settingsUpdated disabled
  failed,              \* history: enqueue numbers of the tabs.create calls that
                       \* reported an error
  detector,            \* the variables of the content script of one page
  page,                \* the page: its selection, its pending selection timers,
                       \* the right-click in progress, whether the extension
                       \* context of its content script has been invalidated,
                       \* (history) the sendMessage calls made after the
                       \* script set isContextValid to false, the number of
                       \* times the page was loaded, the tabs.query calls of
                       \* the background script not yet answered, the
                       \* tabs.sendMessage messages not yet received, the
                       \* script instances injected by tabs.onActivated, each
                       \* with its variables and its pending selection timers,
                       \* and (history) the URLs pushed on account of the
                       \* directLinkClick messages of each requestId
  requests,            \* runtime.sendMessage calls of the page not yet handled
  responses,           \* sendResponse values not yet passed to their callbacks
  clickPushes,         \* history: URLs pushed on account of each right-click
  evaluated,           \* the last call of a URL helper: [fn, input, output]
  pointer              \* the mouse tracking variables, the clock, and the last
                       \* mousedown and mouseup events of the right button

\* the variables of the background script
backgroundVars ==
  <<settings, previousEnableState, openingQueue, isProcessingQueue,
    workers, menuVisible, loadPending, menuSends, lastResponse,
    enqueued, created, discarded, failed>>

\* the variables of the page and of the channel between the two scripts
detectorVars == <<detector, page, requests, responses, clickPushes>>

vars == <<backgroundVars, detectorVars, evaluated, pointer>>

\* the queue, its flag and its workers, as one value the helpers transform
Arbiter ==
  [queue      |-> openingQueue,
   processing |-> isProcessingQueue,
   workers    |-> workers,
   enqueued   |-> enqueued,
   created    |-> created]

SetArbiter(q) ==
  /\ openingQueue' = q.queue
  /\ isProcessingQueue' = q.processing
  /\ workers' = q.workers
  /\ enqueued' = q.enqueued
  /\ created' = q.created

\* the variables of the content script as they are declared
DetectorStart ==
  [isExtensionEnabled      |-> TRUE,
   isContextValid          |-> TRUE,
   handledRightClick       |-> FALSE,
   handledClick            |-> 0,   \* history: the right-click whose
                                    \* confirmation set handledRightClick
   recentOpen              |-> FALSE,
   isIntentionalRightClick |-> FALSE,
   currentSelection        |-> <<>>,
   hasMultipleUrls         |-> FALSE]

\* the state of the two scripts after their top-level code has run
InitState ==
  /\ settings = DefaultSettings
  /\ previousEnableState = TRUE
  /\ openingQueue = <<>>
  /\ isProcessingQueue = FALSE
  /\ workers = {}
  /\ menuVisible = [single |-> TRUE, multi |-> TRUE]
  /\ loadPending = FALSE
  /\ menuSends = {}
  /\ lastResponse = [action |-> "none"]
  /\ enqueued = 0
  /\ created = <<>>
  /\ discarded = {}
  /\ failed = {}
  /\ detector = DetectorStart
  /\ page = [selection |-> <<>>, phase |-> "idle", click |-> 0, timers |-> <<>>,
             invalidated |-> FALSE, lateAttempts |-> 0,
             loads |-> 0, queries |-> 0, inbox |-> <<>>, injected |-> <<>>,
             requestPushes |-> [requestId \in RequestIds |-> 0]]
  /\ requests = <<>>
  /\ responses = <<>>
  /\ clickPushes = <<>>
  /\ pointer = [mouseDownTarget |-> "null",
                mouseDownTime   |-> 0,
                lastMouseX      |-> 0,
                lastMouseY      |-> 0,
                now             |-> 0,
                down            |-> [at |-> -1], \* at: -1 for no event yet
                up              |-> [at |-> -1]]

Init ==
  /\ InitState
  /\ evaluated = [fn |-> "none"]

(***************************************************************************)
(* The queue and its worker                                                *)
(***************************************************************************)
\* clearOpeningQueue without its first assignment: the entries stay
clearOpeningQueueKeepsEntries(q) == [q EXCEPT !.processing = FALSE]

\* clearOpeningQueue
clearOpeningQueue(q) == [q EXCEPT !.queue = <<>>, !.processing = FALSE]

\* openUrlInNewTab up to its await: tabs.create is called unless the
\* extension is disabled; the caller is then suspended on the returned promise
openUrlInNewTab(q, entry) ==
  IF ~settings.enableExtension
    THEN [q EXCEPT !.workers = @ \cup {[pc |-> "delay", n |-> entry.n]}]
    ELSE [q EXCEPT !.workers = @ \cup {[pc |-> "create", n |-> entry.n]},
                   !.created = Append(@, entry.n)]

\* the loop taking the newest entry (pop) where the code takes the oldest
ProcessLoopNewestFirst(q) ==
  IF Len(q.queue) > 0 /\ settings.enableExtension
    THEN openUrlInNewTab([q EXCEPT !.queue = SubSeq(@, 1, Len(@) - 1)],
                         q.queue[Len(q.queue)])
    ELSE [q EXCEPT !.processing = FALSE]

\* the loop testing the queue's length alone and calling tabs.create itself
ProcessLoopUnchecked(q) ==
  IF Len(q.queue) > 0
    THEN [q EXCEPT !.queue = Tail(@),
                   !.workers = @ \cup {[pc |-> "create", n |-> Head(q.queue).n]},
                   !.created = Append(@, Head(q.queue).n)]
    ELSE [q EXCEPT !.processing = FALSE]

\* the while loop of processUrlQueue from its test to the next await
ProcessLoop(q) ==
  IF Len(q.queue) > 0 /\ settings.enableExtension
    THEN openUrlInNewTab([q EXCEPT !.queue = Tail(@)], Head(q.queue))
    ELSE [q EXCEPT !.processing = FALSE]

\* processUrlQueue from its call to its first await
processUrlQueue(q) == ProcessLoop([q EXCEPT !.processing = TRUE])

\* queueUrlForOpening without its test of enableExtension
queueUrlForOpeningUnguarded(q, url) ==
  LET pushed == [q EXCEPT
                   !.queue = Append(@, [url |-> url, n |-> q.enqueued + 1]),
                   !.enqueued = @ + 1]
  IN  IF ~pushed.processing THEN processUrlQueue(pushed) ELSE pushed

\* queueUrlForOpening without its test of isProcessingQueue
queueUrlForOpeningAlwaysStarts(q, url) ==
  IF ~settings.enableExtension
    THEN q
    ELSE processUrlQueue([q EXCEPT
                            !.queue = Append(@, [url |-> url, n |-> q.enqueued + 1]),
                            !.enqueued = @ + 1])

\* queueUrlForOpening pushing only when no worker is running
queueUrlForOpeningDropsWhenBusy(q, url) ==
  IF ~settings.enableExtension \/ q.processing
    THEN q
    ELSE processUrlQueue([q EXCEPT
                            !.queue = Append(@, [url |-> url, n |-> q.enqueued + 1]),
                            !.enqueued = @ + 1])

\* queueUrlForOpening
queueUrlForOpening(q, url) ==
  IF ~settings.enableExtension
    THEN q
    ELSE LET pushed == [q EXCEPT
                          !.queue = Append(@, [url |-> url, n |-> q.enqueued + 1]),
                          !.enqueued = @ + 1]
         IN  IF ~pushed.processing THEN processUrlQueue(pushed) ELSE pushed

\* urls.forEach(url => queueUrlForOpening(url))
RECURSIVE QueueEach(_, _)
QueueEach(q, urls) ==
  IF urls = <<>>
    THEN q
    ELSE QueueEach(queueUrlForOpening(q, Head(urls)), Tail(urls))

\* openMultipleUrls extracting with the 'standard' pattern whatever the setting
openMultipleUrlsStandardPattern(q, text) ==
  LET urls == extractUrls(text, "standard")
      NotExcluded(url) == ~isExcludedDomain(url, settings.excludedDomains)
  IN  IF Len(urls) > 0 THEN QueueEach(q, SelectSeq(urls, NotExcluded)) ELSE q

\* openMultipleUrls
openMultipleUrls(q, text) ==
  LET urls == extractUrls(text, settings.urlPatternType)
      NotExcluded(url) == ~isExcludedDomain(url, settings.excludedDomains)
  IN  IF Len(urls) > 0 THEN QueueEach(q, SelectSeq(urls, NotExcluded)) ELSE q

\* updateContextMenu showing the single-link entry whatever directLinkOpen is
updateContextMenuIgnoresDirectOpen(s) ==
  [single |-> s.enableExtension,
   multi  |-> s.enableExtension /\ s.supportMultipleUrls]

\* updateContextMenu, for the settings s
updateContextMenu(s) ==
  [single |-> s.enableExtension /\ ~s.directLinkOpen,
   multi  |-> s.enableExtension /\ s.supportMultipleUrls]

(***************************************************************************)
(* The worker's continuations                                              *)
(***************************************************************************)
\* the callback of tabs.create runs (with or without runtime.lastError):
\* openUrlInNewTab resolves and the worker starts its 100 ms delay
TabCreated(w) ==
  /\ w \in workers
  /\ w.pc = "create"
  /\ workers' = (workers \ {w}) \cup {[pc |-> "delay", n |-> w.n]}
  /\ UNCHANGED <<settings, previousEnableState, openingQueue, isProcessingQueue,
                 menuVisible, loadPending, menuSends, lastResponse, enqueued,
                 created, discarded, failed>>

\* the callback of tabs.create finding runtime.lastError set, the error
\* kept in the history, with the worker giving up instead of resolving
TabCreateFailedStops(w) ==
  /\ w \in workers
  /\ w.pc = "create"
  /\ workers' = workers \ {w}
  /\ failed' = failed \cup {w.n}
  /\ UNCHANGED <<settings, previousEnableState, openingQueue, isProcessingQueue,
                 menuVisible, loadPending, menuSends, lastResponse, enqueued,
                 created, discarded>>

\* the callback of tabs.create finding runtime.lastError set, the error
\* kept in the history: the error is logged, openUrlInNewTab resolves and
\* the worker starts its 100 ms delay
TabCreateFailed(w) ==
  /\ w \in workers
  /\ w.pc = "create"
  /\ workers' = (workers \ {w}) \cup {[pc |-> "delay", n |-> w.n]}
  /\ failed' = failed \cup {w.n}
  /\ UNCHANGED <<settings, previousEnableState, openingQueue, isProcessingQueue,
                 menuVisible, loadPending, menuSends, lastResponse, enqueued,
                 created, discarded>>

\* the 100 ms timer fires: the worker tests the loop condition again
DelayElapsed(w) ==
  /\ w \in workers
  /\ w.pc = "delay"
  /\ SetArbiter(ProcessLoop([Arbiter EXCEPT !.workers = @ \ {w}]))
  /\ UNCHANGED <<settings, previousEnableState, menuVisible, loadPending,
                 menuSends, lastResponse, discarded, failed>>

(***************************************************************************)
(* Settings: onInstalled, loadSettings and the settingsUpdated message     *)
(***************************************************************************)
\* runtime.onInstalled: both menu entries are created (visible) and
\* loadSettings asks the storage for the settings
OnInstalled ==
  /\ ~loadPending
  /\ loadPending' = TRUE
  /\ menuVisible' = [single |-> TRUE, multi |-> TRUE]
  /\ UNCHANGED <<settings, previousEnableState, openingQueue, isProcessingQueue,
                 workers, menuSends, lastResponse, enqueued, created,
                 discarded, failed>>

\* the callback of storage.sync.get in loadSettings
LoadSettingsCallback(items) ==
  LET merged == Assign(settings, items)
      wasEnabled == settings.enableExtension
  IN  /\ loadPending
      /\ loadPending' = FALSE
      /\ previousEnableState' = wasEnabled
      /\ settings' = merged
      /\ SetArbiter(IF merged.enableExtension /\ ~wasEnabled
                      THEN clearOpeningQueue(Arbiter)
                      ELSE Arbiter)
      /\ menuVisible' = updateContextMenu(merged)
      /\ UNCHANGED <<menuSends, lastResponse, discarded, failed>>

\* message settingsUpdated carrying message.settings = partial
SettingsUpdated(partial) ==
  LET merged == Assign(settings, partial)
      wasEnabled == settings.enableExtension
      disabling == ~merged.enableExtension /\ wasEnabled
  IN  /\ previousEnableState' = wasEnabled
      /\ settings' = merged
      /\ SetArbiter(IF disabling THEN clearOpeningQueue(Arbiter) ELSE Arbiter)
      /\ menuVisible' = updateContextMenu(merged)
      /\ discarded' = IF disabling
                        THEN discarded \cup {openingQueue[i].n : i \in DOMAIN openingQueue}
                        ELSE discarded
      /\ UNCHANGED <<loadPending, menuSends, lastResponse, failed>>

\* message settingsUpdated without message.settings
SettingsUpdatedEmpty ==
  /\ previousEnableState' = settings.enableExtension
  /\ UNCHANGED <<settings, openingQueue, isProcessingQueue, workers, menuVisible,
                 loadPending, menuSends, lastResponse, enqueued, created,
                 discarded, failed>>

(***************************************************************************)
(* Intents: the messages of the content scripts.  Each handler is given as *)
(* its effect on the background script and the response it sends.          *)
(***************************************************************************)
\* the part of an action that enqueues: the result must fit the bound
Enqueueing(q) ==
  /\ q.enqueued <= MaxEnqueues
  /\ SetArbiter(q)

\* what the intent handlers leave alone (the response apart)
IntentFrame ==
  UNCHANGED <<settings, previousEnableState, menuVisible, loadPending,
              menuSends, discarded, failed>>

\* isValid computed from the text alone
CheckSelectionIsValidIgnoresEnabled(text) == isValidUrl(text, "standard")

\* const isValid of the checkSelection branch
CheckSelectionIsValid(text) ==
  settings.enableExtension /\ isValidUrl(text, "standard")

\* const directOpen of the checkSelection branch
CheckSelectionDirectOpen(text) ==
  CheckSelectionIsValid(text) /\ settings.directLinkOpen

\* message checkSelection: the queue, its flag and its workers when the
\* handler returns
CheckSelectionEffect(text) ==
  IF CheckSelectionDirectOpen(text) /\ settings.supportMultipleUrls
    THEN openMultipleUrls(Arbiter, text)
    ELSE Arbiter

\* message checkSelection: the state change
CheckSelectionHandler(text) ==
  /\ Enqueueing(CheckSelectionEffect(text))
  /\ IntentFrame

\* message checkSelection: the response
CheckSelectionResponse(text) ==
  [action |-> "checkSelection",
   showContextMenu |-> CheckSelectionIsValid(text) /\ ~settings.directLinkOpen,
   directOpen |-> CheckSelectionDirectOpen(text)]

\* the test of the openMultipleUrls branch without supportMultipleUrls
OpenMultipleAcceptedIgnoresSupport == settings.enableExtension

\* the test of the openMultipleUrls branch
OpenMultipleAccepted == settings.enableExtension /\ settings.supportMultipleUrls

\* message openMultipleUrls with a non-empty text: the queue, its flag and
\* its workers when the handler returns
OpenMultipleUrlsEffect(text) ==
  IF OpenMultipleAccepted
    THEN openMultipleUrls(Arbiter, text)
    ELSE Arbiter

\* message openMultipleUrls with a non-empty text: the state change
OpenMultipleUrlsHandler(text) ==
  /\ Enqueueing(OpenMultipleUrlsEffect(text))
  /\ IntentFrame

\* message openMultipleUrls: the response
OpenMultipleUrlsResponse(text) ==
  [action |-> "openMultipleUrls", success |-> OpenMultipleAccepted]

\* shouldIntercept computed from directLinkOpen alone
ShouldInterceptIgnoresEnabled == settings.directLinkOpen

\* const shouldIntercept of the shouldOpenLink / directLinkClick branch
ShouldIntercept == settings.enableExtension /\ settings.directLinkOpen

\* the shouldOpenLink branch without its return: the handler goes on into
\* the code of directLinkClick
ShouldOpenLinkHandlerFallsThrough(url) ==
  /\ Enqueueing(IF ShouldIntercept /\ ~isExcludedDomain(url, settings.excludedDomains)
                  THEN queueUrlForOpening(Arbiter, url)
                  ELSE Arbiter)
  /\ IntentFrame

\* message shouldOpenLink: the state change (none)
ShouldOpenLinkHandler(url) ==
  /\ SetArbiter(Arbiter)
  /\ IntentFrame

\* message shouldOpenLink: the response
ShouldOpenLinkResponse(url) ==
  [action |-> "shouldOpenLink", shouldIntercept |-> ShouldIntercept]

\* the test guarding the opening in the directLinkClick branch
DirectLinkOpens(url) ==
  ShouldIntercept /\ ~isExcludedDomain(url, settings.excludedDomains)

\* message directLinkClick: the state change
DirectLinkClickHandler(url) ==
  /\ Enqueueing(IF DirectLinkOpens(url)
                  THEN queueUrlForOpening(Arbiter, url)
                  ELSE Arbiter)
  /\ IntentFrame

\* message directLinkClick: the response
DirectLinkClickResponse(url) ==
  [action |-> "directLinkClick",
   shouldOpen |-> DirectLinkOpens(url),
   shouldIntercept |-> ShouldIntercept]

\* message getExtensionState: the state change (none)
GetExtensionStateHandler ==
  /\ SetArbiter(Arbiter)
  /\ IntentFrame

\* message getExtensionState: the response
GetExtensionStateResponse ==
  [action |-> "getExtensionState", enabled |-> settings.enableExtension]

(***************************************************************************)
\* message getAdvancedSettings: the state change (none)
GetAdvancedSettingsHandler ==
  /\ SetArbiter(Arbiter)
  /\ IntentFrame

\* message getAdvancedSettings: the response (of its five fields the
\* thresholds and debugMode are left out, as they are in the settings)
GetAdvancedSettingsResponse ==
  [action |-> "getAdvancedSettings", urlPatternType |-> settings.urlPatternType]

(* Context-menu clicks                                                     *)
(***************************************************************************)
\* contextMenus.onClicked; <<>> stands for an absent linkUrl / selectionText
MenuClicked(hasTabId, menuItemId, linkUrl, selectionText) ==
  LET selectedText == Trim(selectionText)
      sends == /\ hasTabId
               /\ settings.enableExtension
               /\ menuItemId = MULTI_URL_MENU_ID
               /\ selectionText # <<>>
      q == IF ~hasTabId \/ ~settings.enableExtension
             THEN Arbiter
             ELSE IF menuItemId = MENU_ID
               THEN IF linkUrl # <<>>
                      THEN IF ~isExcludedDomain(linkUrl, settings.excludedDomains)
                             THEN queueUrlForOpening(Arbiter, linkUrl)
                             ELSE Arbiter
                      ELSE IF selectionText # <<>> /\ settings.supportMultipleUrls
                             THEN openMultipleUrls(Arbiter, selectedText)
                             ELSE Arbiter
               ELSE Arbiter
  IN  /\ Enqueueing(q)
      /\ IF sends
           THEN /\ selectedText \notin menuSends
                /\ menuSends' = menuSends \cup {selectedText}
           ELSE UNCHANGED menuSends
      /\ UNCHANGED <<settings, previousEnableState, menuVisible, loadPending,
                     lastResponse, discarded, failed>>

\* tabs.sendMessage of the menu handler is rejected (no content script in
\* the tab): the catch handler opens the text directly
MenuSendFailed(text) ==
  /\ text \in menuSends
  /\ Enqueueing(openMultipleUrls(Arbiter, text))
  /\ menuSends' = menuSends \ {text}
  /\ UNCHANGED <<settings, previousEnableState, menuVisible, loadPending,
                 lastResponse, discarded, failed>>

\* tabs.sendMessage of the menu handler is delivered: the content script
\* takes over (it answers with an openMultipleUrls message of its own)
MenuSendDelivered(text) ==
  /\ text \in menuSends
  /\ menuSends' = menuSends \ {text}
  /\ UNCHANGED <<settings, previousEnableState, openingQueue, isProcessingQueue,
                 workers, menuVisible, loadPending, lastResponse, enqueued,
                 created, discarded, failed>>

(***************************************************************************)
(* The content script of one page: the mouse and context-menu handlers,    *)
(* the selection timer, and the messages exchanged with the background     *)
(* script.  A message is handled by the background script in a step of its *)
(* own, and so is the callback that receives the response.                 *)
(***************************************************************************)
\* [^\s]+
NotSpacePlus(s, P) ==
  UNION {{p + k : k \in {j \in 1..(Len(s) - p) :
                          \A i \in 1..j : s[p + i] \notin WhiteSpace}}
         : p \in P}

\* containsUrls: urlPattern.test(text) looks for a match at every position
containsUrls(text) ==
  \E p \in 0..Len(text) :
    \/ NotSpacePlus(text, Lit(text, {p}, <<"h","t","t","p",":","/","/">>)
                            \cup Lit(text, {p}, <<"h","t","t","p","s",":","/","/">>)) # {}
    \/ Rep(text, Lit(text, NotSpacePlus(text, Lit(text, {p}, <<"w","w","w",".">>)),
                     <<".">>),
           Letters, 2, Len(text)) # {}
    \/ Rep(text,
           Lit(text,
               Rep(text,
                   Lit(text,
                       Rep(text, Rep(text, {p}, AlNum, 1, 1),
                           AlNum \cup {"-"}, 1, Len(text)),
                       <<".">>),
                   Letters, 2, Len(text)),
               <<".">>),
           Letters, 2, Len(text)) # {}

\* String.prototype.startsWith
StartsWith(s, lit) == HasAt(s, 0, lit)

\* shouldProcessLink
shouldProcessLink(href) ==
  IF \/ StartsWith(href, <<"j","a","v","a","s","c","r","i","p","t",":">>)
     \/ href = <<"#">>
     \/ href = <<"a","b","o","u","t",":","b","l","a","n","k">>
    THEN FALSE
    ELSE IF href = PageLocation \o <<"#">>
      THEN FALSE
      ELSE IF \/ StartsWith(href, <<"c","h","r","o","m","e",":","/","/">>)
              \/ StartsWith(href, <<"c","h","r","o","m","e","-","e","x","t","e","n",
                                    "s","i","o","n",":","/","/">>)
              \/ StartsWith(href, <<"a","b","o","u","t",":">>)
              \/ StartsWith(href, <<"m","o","z","-","e","x","t","e","n","s","i","o",
                                    "n",":","/","/">>)
        THEN FALSE
        ELSE TRUE

\* the test at the head of the three event handlers
DetectorActive == detector.isContextValid /\ detector.isExtensionEnabled

\* runtime.sendMessage(message) with the callback that takes the response
\* ("none" when the response is not used) on account of right-click click
Send(action, text, callback, click) ==
  Append(requests, [action |-> action, text |-> text,
                    callback |-> callback, click |-> click])

\* the user changes the selection of the page between two clicks
Select(text) ==
  /\ page.phase = "idle"
  /\ text # page.selection
  /\ page' = [page EXCEPT !.selection = text]
  /\ UNCHANGED <<backgroundVars, detector, requests, responses, clickPushes>>

\* handleMouseDown; the target, time and position it stores are read by
\* handleMouseUp alone, whose comparison is the input intentional there
MouseDown(button) ==
  /\ page.phase = "idle"
  /\ button = 2 => page.click < MaxRightClicks
  /\ page' = [page EXCEPT !.phase = IF button = 2 THEN "down" ELSE "leftDown",
                          !.click = IF button = 2 THEN @ + 1 ELSE @]
  /\ clickPushes' = IF button = 2 THEN Append(clickPushes, 0) ELSE clickPushes
  /\ detector' = IF DetectorActive
                   THEN [detector EXCEPT !.isIntentionalRightClick = FALSE]
                   ELSE detector
  /\ UNCHANGED <<backgroundVars, requests, responses>>

\* handleMouseUp, with handleSelection up to its setTimeout; the context-menu
\* event of a right-click comes before or after the mouseup, as the platform
\* decides
MouseUp(button, intentional) ==
  /\ \/ button = 2 /\ page.phase \in {"down", "menu"}
     \/ button # 2 /\ page.phase = "leftDown"
  /\ detector' = IF DetectorActive /\ button = 2
                   THEN [detector EXCEPT !.isIntentionalRightClick = intentional]
                   ELSE detector
  /\ page' = [page EXCEPT
                !.phase = IF @ = "down" THEN "up" ELSE "idle",
                !.timers = IF DetectorActive /\ button = 2
                             THEN Append(@, page.click)
                             ELSE @]
  /\ UNCHANGED <<backgroundVars, requests, responses, clickPushes>>

\* the callback handleSelection passes to setTimeout
SelectionTimerFired ==
  /\ page.timers # <<>>
  /\ page' = [page EXCEPT !.timers = Tail(@)]
  /\ \E text \in {Trim(page.selection)} :
       IF text # <<>>
         THEN /\ detector' = [detector EXCEPT
                                !.currentSelection = text,
                                !.hasMultipleUrls = containsUrls(text)]
              /\ requests' = Send("checkSelection", text, "none", Head(page.timers))
         ELSE /\ detector' = [detector EXCEPT
                                !.currentSelection = <<>>,
                                !.hasMultipleUrls = FALSE]
              /\ UNCHANGED requests
  /\ UNCHANGED <<backgroundVars, responses, clickPushes>>

\* handleContextMenu; href is linkElement.href of the link under the pointer,
\* <<>> when extractLinkInfo finds none
ContextMenu(href) ==
  /\ page.phase \in {"down", "up"}
  /\ page' = [page EXCEPT !.phase = IF @ = "down" THEN "menu" ELSE "idle"]
  /\ IF ~DetectorActive
       THEN UNCHANGED <<detector, requests>>
       ELSE IF detector.handledRightClick
         THEN /\ detector' = [detector EXCEPT !.handledRightClick = FALSE,
                                       !.handledClick = 0]
              /\ UNCHANGED requests
         ELSE IF detector.recentOpen
           THEN UNCHANGED <<detector, requests>>
           ELSE IF href # <<>> /\ shouldProcessLink(href)
             THEN /\ requests' = Send("shouldOpenLink", href, "link", page.click)
                  /\ UNCHANGED detector
             ELSE IF detector.currentSelection # <<>> /\ detector.hasMultipleUrls
               THEN /\ requests' = Send("checkSelection", detector.currentSelection,
                                        "selection", page.click)
                    /\ UNCHANGED detector
               ELSE UNCHANGED <<detector, requests>>
  /\ UNCHANGED <<backgroundVars, responses, clickPushes>>

\* DEBOUNCE_THRESHOLD milliseconds have passed since lastOpenTime
DebounceElapsed ==
  /\ detector.recentOpen
  /\ detector' = [detector EXCEPT !.recentOpen = FALSE]
  /\ UNCHANGED <<backgroundVars, page, requests, responses, clickPushes>>

\* the script instance of the page that sent the message m: 0 for the
\* instance the manifest registers, k for the k-th instance injected by
\* tabs.onActivated
Instance(m) == IF "instance" \in DOMAIN m THEN m.instance ELSE 0

\* sendResponse(response) for the message m: the response goes to the
\* callback of the instance that sent m
Reply(m, response) ==
  /\ lastResponse' = response
  /\ responses' = IF m.callback = "none"
                    THEN responses
                    ELSE Append(responses, [callback |-> m.callback,
                                            response |-> response,
                                            text |-> m.text,
                                            click |-> m.click,
                                            instance |-> Instance(m)])

\* runtime.onMessage of the background script takes the oldest message of
\* the page
RequestDelivered ==
  /\ requests # <<>>
  /\ \E m \in {Head(requests)} :
       /\ CASE m.action = "checkSelection" ->
                 /\ CheckSelectionHandler(m.text)
                 /\ Reply(m, CheckSelectionResponse(m.text))
            [] m.action = "openMultipleUrls" ->
                 /\ OpenMultipleUrlsHandler(m.text)
                 /\ Reply(m, OpenMultipleUrlsResponse(m.text))
            [] m.action = "shouldOpenLink" ->
                 /\ ShouldOpenLinkHandler(m.text)
                 /\ Reply(m, ShouldOpenLinkResponse(m.text))
            [] m.action = "directLinkClick" ->
                 /\ DirectLinkClickHandler(m.text)
                 /\ Reply(m, DirectLinkClickResponse(m.text))
       /\ clickPushes' = [clickPushes EXCEPT ![m.click] = @ + (enqueued' - enqueued)]
  /\ requests' = Tail(requests)
  /\ UNCHANGED <<detector, page>>

\* processDirectLinkOpening up to its sendMessage
processDirectLinkOpening(href, click) ==
  IF ~detector.isContextValid
    THEN UNCHANGED <<detector, requests>>
    ELSE /\ requests' = Send("directLinkClick", href, "direct", click)
         /\ UNCHANGED detector

\* processMultipleUrls() without argument
processMultipleUrls(click) ==
  IF ~detector.isContextValid \/ detector.currentSelection = <<>>
    THEN UNCHANGED <<detector, requests>>
    ELSE /\ requests' = Send("openMultipleUrls", detector.currentSelection,
                             "none", click)
         /\ detector' = [detector EXCEPT !.recentOpen = TRUE]

\* response && response.shouldOpen: a response without the field is falsy
ResponseShouldOpen(response) ==
  "shouldOpen" \in DOMAIN response /\ response.shouldOpen

\* the callback of the oldest answered sendMessage: the .then callbacks of
\* the content script of background.ts ("link", "direct", "selection") and
\* the callbacks of contentScript.ts ("linkRightClick", "contextMenu")
ResponseDelivered ==
  /\ responses # <<>>
  /\ \E r \in {Head(responses)} :
       CASE r.callback = "link" ->
              IF r.response.shouldIntercept
                THEN processDirectLinkOpening(r.text, r.click)
                ELSE UNCHANGED <<detector, requests>>
         [] r.callback = "direct" ->
              /\ detector' = IF r.response.shouldOpen
                               THEN [detector EXCEPT !.handledRightClick = TRUE,
                                                     !.handledClick = r.click,
                                                     !.recentOpen = TRUE]
                               ELSE detector
              /\ UNCHANGED requests
         [] r.callback = "selection" ->
              IF r.response.directOpen
                THEN processMultipleUrls(r.click)
                ELSE UNCHANGED <<detector, requests>>
         [] r.callback = "linkRightClick" ->
              /\ detector' = IF ResponseShouldOpen(r.response)
                               THEN [detector EXCEPT !.handledRightClick = TRUE,
                                                     !.handledClick = r.click,
                                                     !.recentOpen = TRUE]
                               ELSE detector
              /\ UNCHANGED requests
         [] r.callback = "contextMenu" ->
              /\ detector' = IF r.response.directOpen
                               THEN [detector EXCEPT !.recentOpen = TRUE]
                               ELSE detector
              /\ UNCHANGED requests
  /\ responses' = Tail(responses)
  /\ UNCHANGED <<backgroundVars, page, clickPushes>>

(***************************************************************************)
(* Specifications                                                          *)
(***************************************************************************)
\* the payloads that leave every setting but enableExtension as it is
OnlyEnableChanges(S) ==
  {p \in S : \A k \in DOMAIN p \ {"enableExtension"} : p[k] = settings[k]}

\* the steps of the worker, of the menu and of onInstalled
BackgroundNext ==
  \/ \E w \in workers : TabCreated(w)
  \/ \E w \in workers : DelayElapsed(w)
  \/ OnInstalled
  \/ SettingsUpdatedEmpty
  \/ \E hasTabId \in BOOLEAN, menuItemId \in {MENU_ID, MULTI_URL_MENU_ID},
        linkUrl \in LinkUrls \cup {<<>>}, selectionText \in Texts \cup {<<>>} :
       MenuClicked(hasTabId, menuItemId, linkUrl, selectionText)
  \/ \E text \in menuSends : MenuSendFailed(text)
  \/ \E text \in menuSends : MenuSendDelivered(text)

\* Spec: the queue and its worker under every interleaving of intents,
\* tab creations, delays, settings loads and changes of enableExtension
BackgroundSteps ==
  \/ BackgroundNext
  \/ \E items \in OnlyEnableChanges(StoredSettings) : LoadSettingsCallback(items)
  \/ \E partial \in OnlyEnableChanges(PartialSettings) : SettingsUpdated(partial)
  \/ \E text \in Texts : CheckSelectionHandler(text) /\ UNCHANGED lastResponse
  \/ \E text \in Texts : OpenMultipleUrlsHandler(text) /\ UNCHANGED lastResponse
  \/ \E url \in LinkUrls : ShouldOpenLinkHandler(url) /\ UNCHANGED lastResponse
  \/ \E url \in LinkUrls : DirectLinkClickHandler(url) /\ UNCHANGED lastResponse
  \/ GetExtensionStateHandler /\ UNCHANGED lastResponse

\* the messages of Spec are handled as they arrive: the page is left out
Next == BackgroundSteps /\ UNCHANGED <<detectorVars, evaluated, pointer>>

Spec == Init /\ [][Next]_vars

\* the suspended processUrlQueue calls there can be
WorkerStates == [pc : {"create", "delay"}, n : 1..MaxEnqueues]

\* SpecFair: the runs of Spec in which every tabs.create call has its
\* callback run and every 100 ms timer of the worker fires
SpecFair ==
  /\ Init
  /\ [][Next]_vars
  /\ \A w \in WorkerStates :
       /\ WF_vars(TabCreated(w) /\ UNCHANGED <<detectorVars, evaluated, pointer>>)
       /\ WF_vars(DelayElapsed(w) /\ UNCHANGED <<detectorVars, evaluated, pointer>>)

\* SpecEnabled: the runs of Spec in which enableExtension stays true
EnabledNext == Next /\ settings'.enableExtension

SpecEnabled == Init /\ [][EnabledNext]_vars

\* the payloads that leave urlPatternType as it is
SamePattern(S) ==
  {p \in S : "urlPatternType" \in DOMAIN p => p.urlPatternType = settings.urlPatternType}

\* SpecIntents: the intents under every combination of the toggles and the
\* exclusion list, with the responses recorded; the settings come from the
\* popup alone and no menu is clicked
IntentSteps ==
  \/ \E w \in workers : TabCreated(w)
  \/ \E w \in workers : DelayElapsed(w)
  \/ \E partial \in SamePattern(PartialSettings) : SettingsUpdated(partial)
  \/ \E text \in Texts :
       CheckSelectionHandler(text) /\ lastResponse' = CheckSelectionResponse(text)
  \/ \E text \in Texts :
       OpenMultipleUrlsHandler(text) /\ lastResponse' = OpenMultipleUrlsResponse(text)
  \/ \E url \in LinkUrls :
       ShouldOpenLinkHandler(url) /\ lastResponse' = ShouldOpenLinkResponse(url)
  \/ \E url \in LinkUrls :
       DirectLinkClickHandler(url) /\ lastResponse' = DirectLinkClickResponse(url)
  \/ GetExtensionStateHandler /\ lastResponse' = GetExtensionStateResponse

IntentsNext ==
  /\ IntentSteps
  /\ (enqueued <= MaxIntentEnqueues)'
  /\ UNCHANGED <<detectorVars, evaluated, pointer>>

SpecIntents == Init /\ [][IntentsNext]_vars

\* SpecSelection: the checkSelection and openMultipleUrls messages under
\* every setting the popup can send (toggles, exclusion list, pattern type)
SelectionSteps ==
  \/ \E w \in workers : TabCreated(w)
  \/ \E w \in workers : DelayElapsed(w)
  \/ \E partial \in PartialSettings : SettingsUpdated(partial)
  \/ \E text \in SelectionTexts :
       CheckSelectionHandler(text) /\ lastResponse' = CheckSelectionResponse(text)
  \/ \E text \in SelectionTexts :
       OpenMultipleUrlsHandler(text) /\ lastResponse' = OpenMultipleUrlsResponse(text)

SelectionNext ==
  /\ SelectionSteps
  /\ (enqueued <= MaxSelectionEnqueues)'
  /\ UNCHANGED <<detectorVars, evaluated, pointer>>

SpecSelection == Init /\ [][SelectionNext]_vars

\* the payloads that leave the three toggles as they are
KeepsToggles(S) ==
  {p \in S : \A k \in DOMAIN p \cap {"enableExtension", "directLinkOpen",
                                     "supportMultipleUrls"} :
               p[k] = settings[k]}

\* SpecMultiOpen: the openMultipleUrls messages that are accepted (the
\* toggles stay true), under every exclusion list and pattern type
MultiOpenSteps ==
  \/ \E w \in workers : TabCreated(w)
  \/ \E w \in workers : DelayElapsed(w)
  \/ \E partial \in KeepsToggles(PartialSettings) : SettingsUpdated(partial)
  \/ \E text \in MultiOpenTexts :
       OpenMultipleUrlsHandler(text) /\ lastResponse' = OpenMultipleUrlsResponse(text)

MultiOpenNext ==
  /\ MultiOpenSteps
  /\ (enqueued <= MaxMultiOpenEnqueues)'
  /\ UNCHANGED <<detectorVars, evaluated, pointer>>

SpecMultiOpen == Init /\ [][MultiOpenNext]_vars

\* SpecQueries: the messages shouldOpenLink, getExtensionState and
\* getAdvancedSettings handled at any moment, with URLs waiting or not and
\* under every setting the popup can send
QueriesNext ==
  \/ \E w \in workers : TabCreated(w) /\ UNCHANGED <<detectorVars, evaluated, pointer>>
  \/ \E w \in workers : DelayElapsed(w) /\ UNCHANGED <<detectorVars, evaluated, pointer>>
  \/ \E partial \in PartialSettings :
       SettingsUpdated(partial) /\ UNCHANGED <<detectorVars, evaluated, pointer>>
  \/ \E url \in LinkUrls :
       /\ DirectLinkClickHandler(url)
       /\ enqueued' <= MaxIntentEnqueues
       /\ lastResponse' = DirectLinkClickResponse(url)
       /\ UNCHANGED <<detectorVars, evaluated, pointer>>
  \/ \E url \in LinkUrls :
       /\ ShouldOpenLinkHandler(url)
       /\ lastResponse' = ShouldOpenLinkResponse(url)
       /\ UNCHANGED <<detectorVars, evaluated, pointer>>
  \/ /\ GetExtensionStateHandler
     /\ lastResponse' = GetExtensionStateResponse
     /\ UNCHANGED <<detectorVars, evaluated, pointer>>
  \/ /\ GetAdvancedSettingsHandler
     /\ lastResponse' = GetAdvancedSettingsResponse
     /\ UNCHANGED <<detectorVars, evaluated, pointer>>

SpecQueries == Init /\ [][QueriesNext]_vars

\* SpecMenu: the settings loaded from every stored value and changed by
\* every payload of the popup, with the visibility of the two menu entries
MenuNext ==
  \/ OnInstalled /\ UNCHANGED <<detectorVars, evaluated, pointer>>
  \/ \E items \in StoredSettings :
       LoadSettingsCallback(items) /\ UNCHANGED <<detectorVars, evaluated, pointer>>
  \/ \E partial \in PartialSettings :
       SettingsUpdated(partial) /\ UNCHANGED <<detectorVars, evaluated, pointer>>
  \/ SettingsUpdatedEmpty /\ UNCHANGED <<detectorVars, evaluated, pointer>>

SpecMenu == Init /\ [][MenuNext]_vars

\* message directLinkClick carrying message.url and message.requestId: the
\* handler does not read requestId
DirectLinkClickReceived(url, requestId) ==
  /\ DirectLinkClickHandler(url)
  /\ lastResponse' = DirectLinkClickResponse(url)
  /\ page' = [page EXCEPT !.requestPushes[requestId] = @ + (enqueued' - enqueued)]
  /\ UNCHANGED <<detector, requests, responses, clickPushes, evaluated, pointer>>

\* SpecRequests: directLinkClick messages with their request ids, while the
\* toggles stay true, under every exclusion list and pattern type
RequestsNext ==
  \/ \E w \in workers : TabCreated(w) /\ UNCHANGED <<detectorVars, evaluated, pointer>>
  \/ \E w \in workers : DelayElapsed(w) /\ UNCHANGED <<detectorVars, evaluated, pointer>>
  \/ \E url \in LinkUrls, requestId \in RequestIds :
       DirectLinkClickReceived(url, requestId)
  \/ \E partial \in KeepsToggles(PartialSettings) :
       SettingsUpdated(partial) /\ UNCHANGED <<detectorVars, evaluated, pointer>>

SpecRequests == Init /\ [][RequestsNext]_vars

\* SpecCreate: links and texts opened one after the other while the
\* toggles stay true, under every exclusion list and pattern type, each
\* tabs.create succeeding or reporting an error
CreateNext ==
  \/ \E w \in workers : TabCreated(w) /\ UNCHANGED <<detectorVars, evaluated, pointer>>
  \/ \E w \in workers : TabCreateFailed(w) /\ UNCHANGED <<detectorVars, evaluated, pointer>>
  \/ \E w \in workers : DelayElapsed(w) /\ UNCHANGED <<detectorVars, evaluated, pointer>>
  \/ \E url \in LinkUrls :
       DirectLinkClickHandler(url) /\ UNCHANGED <<lastResponse, detectorVars, evaluated, pointer>>
  \/ \E text \in Texts :
       OpenMultipleUrlsHandler(text) /\ UNCHANGED <<lastResponse, detectorVars, evaluated, pointer>>
  \/ \E partial \in KeepsToggles(PartialSettings) :
       SettingsUpdated(partial) /\ UNCHANGED <<detectorVars, evaluated, pointer>>

SpecCreate == Init /\ [][CreateNext]_vars

\* SpecLexer: one call of a URL helper on each string of LexerStrings and
\* on each text made of the lines of LexerLines
LexerInit ==
  /\ InitState
  /\ evaluated \in [fn : {"input"}, url : LexerStrings,
                     excludedDomains : LexerExclusionLists]
                    \cup [fn : {"string"}, text : LexerStrings,
                          patternType : PatternTypes]
                    \cup [fn : {"lines"}, lines : LexerLineSeqs,
                          break : LineBreaks, patternType : PatternTypes]

\* normalizeUrl(url)
NormalizeUrlCalled ==
  /\ evaluated.fn = "input"
  /\ evaluated' = [fn |-> "normalizeUrl",
                   url |-> evaluated.url,
                   excludedDomains |-> evaluated.excludedDomains,
                   output |-> normalizeUrl(evaluated.url)]
  /\ UNCHANGED <<backgroundVars, detectorVars, pointer>>

\* isExcludedDomain(url) with settings.excludedDomains as given
IsExcludedDomainCalled ==
  /\ evaluated.fn = "input"
  /\ evaluated' = [fn |-> "isExcludedDomain",
                   url |-> evaluated.url,
                   excludedDomains |-> evaluated.excludedDomains,
                   output |-> isExcludedDomain(evaluated.url,
                                               evaluated.excludedDomains)]
  /\ UNCHANGED <<backgroundVars, detectorVars, pointer>>

\* isValidUrl(text, patternType)
IsValidUrlCalled ==
  /\ evaluated.fn = "string"
  /\ evaluated' = [fn |-> "isValidUrl",
                   text |-> evaluated.text,
                   patternType |-> evaluated.patternType,
                   output |-> isValidUrl(evaluated.text, evaluated.patternType)]
  /\ UNCHANGED <<backgroundVars, detectorVars, pointer>>

\* extractUrls(text, patternType), the text being the lines joined
ExtractUrlsCalled ==
  /\ evaluated.fn = "lines"
  /\ evaluated' = [fn |-> "extractUrls",
                   lines |-> evaluated.lines,
                   break |-> evaluated.break,
                   patternType |-> evaluated.patternType,
                   output |-> extractUrls(Join(evaluated.lines, evaluated.break),
                                          evaluated.patternType)]
  /\ UNCHANGED <<backgroundVars, detectorVars, pointer>>

LexerNext ==
  \/ NormalizeUrlCalled
  \/ IsExcludedDomainCalled
  \/ IsValidUrlCalled
  \/ ExtractUrlsCalled

SpecLexer == LexerInit /\ [][LexerNext]_vars

(***************************************************************************)
(* The mouse tracking of the content script                                *)
(***************************************************************************)
\* Date.now() advances
ClockTick ==
  /\ pointer.now < MaxTicks * TickMs
  /\ pointer' = [pointer EXCEPT !.now = @ + TickMs]
  /\ UNCHANGED <<backgroundVars, detectorVars, evaluated>>

\* handleMouseMove
handleMouseMove(position) ==
  /\ detector.isContextValid
  /\ pointer' = [pointer EXCEPT !.lastMouseX = position[1],
                                !.lastMouseY = position[2]]
  /\ UNCHANGED <<backgroundVars, detectorVars, evaluated>>

\* handleMouseDown, with the target, time and position it stores
handleMouseDown(button, position, target) ==
  /\ MouseDown(button)
  /\ pointer' =
       IF DetectorActive /\ button = 2
         THEN [pointer EXCEPT
                 !.mouseDownTarget = target,
                 !.mouseDownTime = pointer.now,
                 !.lastMouseX = position[1],
                 !.lastMouseY = position[2],
                 !.down = [at |-> pointer.now, x |-> position[1],
                           y |-> position[2], target |-> target],
                 !.up = [at |-> -1]]
         ELSE [pointer EXCEPT !.up = [at |-> -1]]
  /\ UNCHANGED evaluated

\* (a - b) squared
SquaredDifference(a, b) == (a - b) * (a - b)

\* the three comparisons of handleMouseUp; Math.sqrt(d) < threshold is
\* compared as d < threshold squared
IntentionalClick(position, target) ==
  LET clickDuration == pointer.now - pointer.mouseDownTime
      squaredDistance == SquaredDifference(position[1], pointer.lastMouseX)
                           + SquaredDifference(position[2], pointer.lastMouseY)
      sameTarget == /\ pointer.mouseDownTarget # "null"
                    /\ \/ target = pointer.mouseDownTarget
                       \/ Contains(target, pointer.mouseDownTarget)
                       \/ Contains(pointer.mouseDownTarget, target)
  IN  /\ squaredDistance < CLICK_DISTANCE_THRESHOLD * CLICK_DISTANCE_THRESHOLD
      /\ clickDuration < CLICK_TIME_THRESHOLD
      /\ sameTarget

\* handleMouseUp of the right button
handleMouseUp(position, target) ==
  /\ MouseUp(2, IntentionalClick(position, target))
  /\ pointer' = [pointer EXCEPT
                   !.up = [at |-> pointer.now, x |-> position[1],
                           y |-> position[2], target |-> target]]
  /\ UNCHANGED evaluated

\* SpecClick: right-clicks on a page without selection, with the positions,
\* targets and times of the mouse events
ClickNext ==
  \/ ClockTick
  \/ \E position \in PointerPositions : handleMouseMove(position)
  \/ \E button \in Buttons, position \in PointerPositions, target \in PageTargets :
       handleMouseDown(button, position, target)
  \/ \E position \in PointerPositions, target \in PageTargets :
       handleMouseUp(position, target)
  \/ MouseUp(0, FALSE) /\ UNCHANGED <<evaluated, pointer>>
  \/ SelectionTimerFired /\ UNCHANGED <<evaluated, pointer>>
  \/ ContextMenu(<<>>) /\ UNCHANGED <<evaluated, pointer>>

SpecClick == Init /\ [][ClickNext]_vars

\* SpecPointer: right-clicks on the link of a page without selection, with
\* the positions, targets and times of the mouse events, the messages of
\* the link and their responses
PointerNext ==
  \/ ClockTick
  \/ \E position \in PointerPositions, target \in PageTargets :
       handleMouseDown(2, position, target)
  \/ \E position \in PointerPositions, target \in PageTargets :
       handleMouseUp(position, target)
  \/ SelectionTimerFired /\ UNCHANGED <<evaluated, pointer>>
  \/ \E href \in PageLinks : ContextMenu(href) /\ UNCHANGED <<evaluated, pointer>>
  \/ DebounceElapsed /\ UNCHANGED <<evaluated, pointer>>
  \/ RequestDelivered /\ UNCHANGED <<evaluated, pointer>>
  \/ ResponseDelivered /\ UNCHANGED <<evaluated, pointer>>
  \/ \E w \in workers : TabCreated(w) /\ UNCHANGED <<detectorVars, evaluated, pointer>>
  \/ \E w \in workers : DelayElapsed(w) /\ UNCHANGED <<detectorVars, evaluated, pointer>>

SpecPointer == Init /\ [][PointerNext]_vars

(***************************************************************************)
(* contentScript.ts, the content script the manifest registers             *)
(***************************************************************************)
\* shouldProcessLink of contentScript.ts
ContentScriptShouldProcessLink(href) ==
  IF \/ StartsWith(href, <<"j","a","v","a","s","c","r","i","p","t",":">>)
     \/ href = <<"#">>
     \/ href = <<"a","b","o","u","t",":","b","l","a","n","k">>
    THEN FALSE
    ELSE IF href = PageLocation \o <<"#">>
      THEN FALSE
      ELSE TRUE

\* handleLinkRightClick on the mousedown of the right button; href is
\* linkElement.href, <<>> when extractLinkInfo finds no link
handleLinkRightClick(href) ==
  /\ page.phase = "idle"
  /\ page.click < MaxRightClicks
  /\ page' = [page EXCEPT !.phase = "down", !.click = @ + 1]
  /\ clickPushes' = Append(clickPushes, 0)
  /\ requests' =
       IF /\ detector.isExtensionEnabled
          /\ ~detector.recentOpen
          /\ href # <<>>
          /\ ContentScriptShouldProcessLink(href)
         THEN Send("shouldOpenLink", href, "linkRightClick", page.click + 1)
         ELSE requests
  /\ UNCHANGED <<backgroundVars, detector, responses>>

\* the mouseup of the right button: handleSelection of contentScript.ts up
\* to its setTimeout, then handleAuxClick
handleAuxClick(href) ==
  /\ page.phase \in {"down", "menu"}
  /\ page' = [page EXCEPT
                !.phase = IF @ = "down" THEN "up" ELSE "idle",
                !.timers = IF detector.isExtensionEnabled
                             THEN Append(@, page.click)
                             ELSE @]
  /\ requests' =
       IF /\ ~detector.handledRightClick
          /\ detector.isExtensionEnabled
          /\ href # <<>>
          /\ ContentScriptShouldProcessLink(href)
         THEN Send("shouldOpenLink", href, "none", page.click)
         ELSE requests
  /\ UNCHANGED <<backgroundVars, detector, responses, clickPushes>>

\* the callback handleSelection of contentScript.ts passes to setTimeout
ContentScriptTimerFired ==
  /\ page.timers # <<>>
  /\ page' = [page EXCEPT !.timers = Tail(@)]
  /\ requests' = IF Trim(page.selection) # <<>>
                   THEN Send("checkSelection", page.selection, "none",
                             Head(page.timers))
                   ELSE requests
  /\ UNCHANGED <<backgroundVars, detector, responses, clickPushes>>

\* handleContextMenu of contentScript.ts
ContentScriptContextMenu(href) ==
  /\ page.phase \in {"down", "up"}
  /\ page' = [page EXCEPT !.phase = IF @ = "down" THEN "menu" ELSE "idle"]
  /\ IF detector.handledRightClick
       THEN /\ detector' = [detector EXCEPT !.handledRightClick = FALSE,
                                       !.handledClick = 0]
            /\ UNCHANGED requests
       ELSE /\ UNCHANGED detector
            /\ requests' =
                 IF /\ detector.isExtensionEnabled
                    /\ ~detector.recentOpen
                    /\ ~(href # <<>> /\ ContentScriptShouldProcessLink(href))
                    /\ Trim(page.selection) # <<>>
                   THEN Send("checkSelection", page.selection, "contextMenu",
                             page.click)
                   ELSE requests
  /\ UNCHANGED <<backgroundVars, responses, clickPushes>>

\* SpecLinks: right-clicks on the links of LinkHrefs in a page that runs
\* contentScript.ts and has no text selected
LinksNext ==
  \/ \E href \in LinkHrefs : handleLinkRightClick(href) /\ UNCHANGED <<evaluated, pointer>>
  \/ \E href \in PageLinks : handleAuxClick(href) /\ UNCHANGED <<evaluated, pointer>>
  \/ ContentScriptTimerFired /\ UNCHANGED <<evaluated, pointer>>
  \/ \E href \in PageLinks : ContentScriptContextMenu(href) /\ UNCHANGED <<evaluated, pointer>>
  \/ RequestDelivered /\ UNCHANGED <<evaluated, pointer>>
  \/ ResponseDelivered /\ UNCHANGED <<evaluated, pointer>>

SpecLinks == Init /\ [][LinksNext]_vars

(***************************************************************************)
(* The content script after its extension context is invalidated           *)
(***************************************************************************)
\* the extension is reloaded, updated or removed while the page stays open:
\* runtime.sendMessage throws 'Extension context invalidated' from now on
ContextInvalidated ==
  /\ ~page.invalidated
  /\ page' = [page EXCEPT !.invalidated = TRUE]
  /\ UNCHANGED <<backgroundVars, detector, requests, responses, clickPushes,
                 evaluated, pointer>>

\* the callback handleSelection passes to setTimeout, in an invalidated
\* context: safeBrowserCall(runtime.sendMessage, ...) throws and handleError
\* sets isContextValid to false (and removes the listeners, which test
\* isContextValid themselves); the call is counted in the history when
\* isContextValid is false already
SelectionTimerFiredInvalidated ==
  /\ page.invalidated
  /\ page.timers # <<>>
  /\ \E text \in {Trim(page.selection)} :
       IF text # <<>>
         THEN /\ detector' = [detector EXCEPT
                                !.currentSelection = text,
                                !.hasMultipleUrls = containsUrls(text),
                                !.isContextValid = FALSE]
              /\ page' = [page EXCEPT
                            !.timers = Tail(@),
                            !.lateAttempts =
                               IF detector.isContextValid THEN @ ELSE @ + 1]
         ELSE /\ detector' = [detector EXCEPT
                                !.currentSelection = <<>>,
                                !.hasMultipleUrls = FALSE]
              /\ page' = [page EXCEPT !.timers = Tail(@)]
  /\ UNCHANGED <<backgroundVars, requests, responses, clickPushes,
                 evaluated, pointer>>

\* handleContextMenu in an invalidated context
ContextMenuInvalidated(href) ==
  /\ page.invalidated
  /\ page.phase \in {"down", "up"}
  /\ \E phase \in {IF page.phase = "down" THEN "menu" ELSE "idle"} :
       IF ~DetectorActive
         THEN /\ page' = [page EXCEPT !.phase = phase]
              /\ UNCHANGED detector
         ELSE IF detector.handledRightClick
           THEN /\ detector' = [detector EXCEPT !.handledRightClick = FALSE,
                                       !.handledClick = 0]
                /\ page' = [page EXCEPT !.phase = phase]
           ELSE IF detector.recentOpen
             THEN /\ page' = [page EXCEPT !.phase = phase]
                  /\ UNCHANGED detector
             ELSE IF \/ href # <<>> /\ shouldProcessLink(href)
                     \/ detector.currentSelection # <<>> /\ detector.hasMultipleUrls
               THEN /\ detector' = [detector EXCEPT !.isContextValid = FALSE]
                    /\ page' = [page EXCEPT !.phase = phase]
               ELSE /\ page' = [page EXCEPT !.phase = phase]
                    /\ UNCHANGED detector
  /\ UNCHANGED <<backgroundVars, requests, responses, clickPushes,
                 evaluated, pointer>>

\* SpecInvalidation: right-clicks on a page whose extension context is
\* invalidated at some moment; the messages and responses in flight at that
\* moment are lost
InvalidationNext ==
  \/ \E text \in PageSelections : Select(text) /\ UNCHANGED <<evaluated, pointer>>
  \/ \E button \in Buttons : MouseDown(button) /\ UNCHANGED <<evaluated, pointer>>
  \/ \E intentional \in BOOLEAN : MouseUp(2, intentional) /\ UNCHANGED <<evaluated, pointer>>
  \/ MouseUp(0, FALSE) /\ UNCHANGED <<evaluated, pointer>>
  \/ ~page.invalidated /\ SelectionTimerFired /\ UNCHANGED <<evaluated, pointer>>
  \/ \E href \in PageLinks :
       ~page.invalidated /\ ContextMenu(href) /\ UNCHANGED <<evaluated, pointer>>
  \/ ~page.invalidated /\ RequestDelivered /\ UNCHANGED <<evaluated, pointer>>
  \/ ~page.invalidated /\ ResponseDelivered /\ UNCHANGED <<evaluated, pointer>>
  \/ ContextInvalidated
  \/ SelectionTimerFiredInvalidated
  \/ \E href \in PageLinks : ContextMenuInvalidated(href)

SpecInvalidation == Init /\ [][InvalidationNext]_vars

(***************************************************************************)
(* The enabled flag of the content script: its fetch and the notifications *)
(***************************************************************************)
\* the page is loaded: the content script starts with its declared values
\* and initialize() calls checkExtensionState(), which sends
\* getExtensionState; what was under way for the document before is lost
ContentScriptStarted ==
  /\ page.loads < MaxPageLoads
  /\ detector' = DetectorStart
  /\ page' = [page EXCEPT !.loads = @ + 1, !.inbox = <<>>, !.selection = <<>>,
                          !.phase = "idle", !.timers = <<>>, !.injected = <<>>]
  /\ requests' = <<[action |-> "getExtensionState", text |-> <<>>,
                    callback |-> "state", click |-> page.click]>>
  /\ responses' = <<>>
  /\ UNCHANGED <<backgroundVars, clickPushes, evaluated, pointer>>

\* runtime.onMessage of the background script takes a getExtensionState
\* message
GetExtensionStateDelivered ==
  /\ requests # <<>>
  /\ Head(requests).action = "getExtensionState"
  /\ GetExtensionStateHandler
  /\ Reply(Head(requests), GetExtensionStateResponse)
  /\ requests' = Tail(requests)
  /\ UNCHANGED <<detector, page, clickPushes, evaluated, pointer>>

\* the .then callback of checkExtensionState
ExtensionStateReceived ==
  /\ responses # <<>>
  /\ Head(responses).callback = "state"
  /\ detector' = [detector EXCEPT
                    !.isExtensionEnabled = Head(responses).response.enabled]
  /\ responses' = Tail(responses)
  /\ UNCHANGED <<backgroundVars, page, requests, clickPushes, evaluated, pointer>>

\* message settingsUpdated, with notifyExtensionStateChange up to its
\* tabs.query when the payload changes enableExtension
SettingsUpdatedNotifies(partial) ==
  /\ page.queries + Len(page.inbox) < MaxNotifications
  /\ SettingsUpdated(partial)
  /\ page' = [page EXCEPT
                !.queries = IF /\ "enableExtension" \in DOMAIN partial
                               /\ partial.enableExtension # settings.enableExtension
                              THEN @ + 1
                              ELSE @]
  /\ UNCHANGED <<detector, requests, responses, clickPushes, evaluated, pointer>>

\* the callback of tabs.query in notifyExtensionStateChange: the value of
\* enableExtension at this moment is sent to the tab
TabsQueryCallback ==
  /\ page.queries > 0
  /\ page' = [page EXCEPT
                !.queries = @ - 1,
                !.inbox = Append(@, [action |-> "extensionStateChanged",
                                     enabled |-> settings.enableExtension])]
  /\ UNCHANGED <<backgroundVars, detector, requests, responses, clickPushes,
                 evaluated, pointer>>

\* runtime.onMessage of the content script takes extensionStateChanged
ExtensionStateChanged ==
  /\ page.inbox # <<>>
  /\ page' = [page EXCEPT !.inbox = Tail(@)]
  /\ detector' = IF detector.isContextValid
                   THEN [detector EXCEPT
                           !.isExtensionEnabled = Head(page.inbox).enabled]
                   ELSE detector
  /\ UNCHANGED <<backgroundVars, requests, responses, clickPushes,
                 evaluated, pointer>>

\* the steps of SpecSettings
SettingsNext ==
  \/ OnInstalled /\ UNCHANGED <<detectorVars, evaluated, pointer>>
  \/ \E items \in OnlyEnableChanges(StoredSettings) :
       LoadSettingsCallback(items) /\ UNCHANGED <<detectorVars, evaluated, pointer>>
  \/ \E partial \in OnlyEnableChanges(PartialSettings) : SettingsUpdatedNotifies(partial)
  \/ ContentScriptStarted
  \/ GetExtensionStateDelivered
  \/ ExtensionStateReceived
  \/ TabsQueryCallback
  \/ ExtensionStateChanged

\* SpecSettings: the enabled flag of the background script and its copy in
\* the content script, under settings loads, changes by the popup and page
\* loads; every callback under way is run and every message sent is
\* delivered
SpecSettings ==
  /\ Init
  /\ [][SettingsNext]_vars
  /\ WF_vars(\E items \in OnlyEnableChanges(StoredSettings) :
               LoadSettingsCallback(items) /\ UNCHANGED <<detectorVars, evaluated, pointer>>)
  /\ WF_vars(GetExtensionStateDelivered)
  /\ WF_vars(ExtensionStateReceived)
  /\ WF_vars(TabsQueryCallback)
  /\ WF_vars(ExtensionStateChanged)

(***************************************************************************)
(* The script instances of one page.  The manifest registers the content   *)
(* script for every page, and tabs.onActivated injects it again each time  *)
(* the tab is activated: every run of the script declares its variables    *)
(* anew and initialize() registers its own listeners.  A mouse event is    *)
(* dispatched to the listeners of every instance, in the order in which    *)
(* they were registered, within one task.                                  *)
(***************************************************************************)
\* an instance as executeScript starts it, with its pending selection timers
InjectedStart == [d |-> DetectorStart, timers |-> <<>>]

\* the instances of the page: 0 the one of the manifest, k the k-th injected
InstanceIds == 0..Len(page.injected)

\* the variables of instance k
InstanceState(k) == IF k = 0 THEN detector ELSE page.injected[k].d

\* the pending selection timers of instance k
InstanceTimers(k) == IF k = 0 THEN page.timers ELSE page.injected[k].timers

\* instance k gets the variables d and the pending timers pending
SetInstance(k, d, pending) ==
  IF k = 0
    THEN /\ detector' = d
         /\ page' = [page EXCEPT !.timers = pending]
    ELSE /\ UNCHANGED detector
         /\ page' = [page EXCEPT !.injected[k] = [d |-> d, timers |-> pending]]

\* the message of runtime.sendMessage called by instance k
SentBy(k, action, text, callback, click) ==
  [action |-> action, text |-> text, callback |-> callback, click |-> click,
   instance |-> k]

\* the test at the head of the event handlers of an instance
InstanceActive(d) == d.isContextValid /\ d.isExtensionEnabled

\* handleMouseDown of one instance, for the right button
MouseDownOf(d) ==
  IF InstanceActive(d) THEN [d EXCEPT !.isIntentionalRightClick = FALSE] ELSE d

\* handleMouseUp of one instance, for the right button
MouseUpOf(d, intentional) ==
  IF InstanceActive(d)
    THEN [d EXCEPT !.isIntentionalRightClick = intentional]
    ELSE d

\* handleContextMenu of one instance: its variables when the handler returns
ContextMenuOf(d) ==
  IF InstanceActive(d) /\ d.handledRightClick
    THEN [d EXCEPT !.handledRightClick = FALSE, !.handledClick = 0]
    ELSE d

\* handleContextMenu of one instance: the action of the message it sends
ContextMenuSends(d, href) ==
  IF ~InstanceActive(d) \/ d.handledRightClick \/ d.recentOpen
    THEN "none"
    ELSE IF href # <<>> /\ shouldProcessLink(href)
      THEN "shouldOpenLink"
      ELSE IF d.currentSelection # <<>> /\ d.hasMultipleUrls
        THEN "checkSelection"
        ELSE "none"

\* tabs.onActivated for the tab of the page: executeScript runs the content
\* script once more, and its initialize() calls checkExtensionState
TabActivated ==
  /\ Len(page.injected) < MaxActivations
  /\ IF settings.enableExtension
       THEN /\ page' = [page EXCEPT !.injected = Append(@, InjectedStart)]
            /\ requests' = Append(requests,
                                  SentBy(Len(page.injected) + 1, "getExtensionState",
                                         <<>>, "state", page.click))
       ELSE UNCHANGED <<page, requests>>
  /\ UNCHANGED <<backgroundVars, detector, responses, clickPushes, evaluated, pointer>>

\* a mousedown of the right button, handled by every instance
MouseDownDispatched ==
  /\ page.phase = "idle"
  /\ page.click < MaxRightClicks
  /\ detector' = MouseDownOf(detector)
  /\ page' = [page EXCEPT
                !.phase = "down",
                !.click = @ + 1,
                !.injected = [k \in DOMAIN page.injected |->
                                [d |-> MouseDownOf(page.injected[k].d),
                                 timers |-> page.injected[k].timers]]]
  /\ clickPushes' = Append(clickPushes, 0)
  /\ UNCHANGED <<backgroundVars, requests, responses, evaluated, pointer>>

\* a mouseup of the right button, handled by every instance: handleMouseUp
\* with handleSelection up to its setTimeout
MouseUpDispatched(intentional) ==
  /\ page.phase \in {"down", "menu"}
  /\ detector' = MouseUpOf(detector, intentional)
  /\ page' = [page EXCEPT
                !.phase = IF @ = "down" THEN "up" ELSE "idle",
                !.timers = IF InstanceActive(detector)
                             THEN Append(@, page.click)
                             ELSE @,
                !.injected = [k \in DOMAIN page.injected |->
                                [d |-> MouseUpOf(page.injected[k].d, intentional),
                                 timers |-> IF InstanceActive(page.injected[k].d)
                                              THEN Append(page.injected[k].timers,
                                                          page.click)
                                              ELSE page.injected[k].timers]]]
  /\ UNCHANGED <<backgroundVars, requests, responses, clickPushes, evaluated, pointer>>

\* the callback handleSelection of instance k passed to setTimeout
InstanceTimerFired(k) ==
  /\ InstanceTimers(k) # <<>>
  /\ \E text \in {Trim(page.selection)}, d \in {InstanceState(k)} :
       IF text # <<>>
         THEN /\ SetInstance(k, [d EXCEPT !.currentSelection = text,
                                          !.hasMultipleUrls = containsUrls(text)],
                             Tail(InstanceTimers(k)))
              /\ requests' = Append(requests,
                                    SentBy(k, "checkSelection", text, "none",
                                           Head(InstanceTimers(k))))
         ELSE /\ SetInstance(k, [d EXCEPT !.currentSelection = <<>>,
                                          !.hasMultipleUrls = FALSE],
                             Tail(InstanceTimers(k)))
              /\ UNCHANGED requests
  /\ UNCHANGED <<backgroundVars, responses, clickPushes, evaluated, pointer>>

\* a contextmenu event, handled by every instance; href is linkElement.href
\* of the link under the pointer, <<>> when extractLinkInfo finds none
ContextMenuDispatched(href) ==
  LET IsSent(m) == m.action # "none"
      Sent(k) ==
        LET d == InstanceState(k)
            action == ContextMenuSends(d, href)
        IN  IF action = "shouldOpenLink"
              THEN SentBy(k, action, href, "link", page.click)
              ELSE SentBy(k, action, d.currentSelection, "selection", page.click)
  IN  /\ page.phase \in {"down", "up"}
      /\ detector' = ContextMenuOf(detector)
      /\ page' = [page EXCEPT
                    !.phase = IF @ = "down" THEN "menu" ELSE "idle",
                    !.injected = [k \in DOMAIN page.injected |->
                                    [d |-> ContextMenuOf(page.injected[k].d),
                                     timers |-> page.injected[k].timers]]]
      /\ requests' = requests \o
                       SelectSeq([j \in 1..(Len(page.injected) + 1) |-> Sent(j - 1)],
                                 IsSent)
      /\ UNCHANGED <<backgroundVars, responses, clickPushes, evaluated, pointer>>

\* DEBOUNCE_THRESHOLD milliseconds have passed since lastOpenTime of
\* instance k
InstanceDebounceElapsed(k) ==
  /\ InstanceState(k).recentOpen
  /\ SetInstance(k, [InstanceState(k) EXCEPT !.recentOpen = FALSE], InstanceTimers(k))
  /\ UNCHANGED <<backgroundVars, requests, responses, clickPushes, evaluated, pointer>>

\* the callback of the oldest answered sendMessage, run in the instance
\* that sent the message
InstanceResponseDelivered ==
  /\ responses # <<>>
  /\ \E r \in {Head(responses)} :
       \E k \in {r.instance} :
         \E d \in {InstanceState(k)} :
           CASE r.callback = "state" ->
                  /\ SetInstance(k, [d EXCEPT !.isExtensionEnabled = r.response.enabled],
                                 InstanceTimers(k))
                  /\ UNCHANGED requests
             [] r.callback = "link" ->
                  IF r.response.shouldIntercept /\ d.isContextValid
                    THEN /\ requests' = Append(requests,
                                               SentBy(k, "directLinkClick", r.text,
                                                      "direct", r.click))
                         /\ UNCHANGED <<detector, page>>
                    ELSE UNCHANGED <<detector, page, requests>>
             [] r.callback = "direct" ->
                  /\ SetInstance(k, IF r.response.shouldOpen
                                      THEN [d EXCEPT !.handledRightClick = TRUE,
                                                     !.handledClick = r.click,
                                                     !.recentOpen = TRUE]
                                      ELSE d,
                                 InstanceTimers(k))
                  /\ UNCHANGED requests
             [] r.callback = "selection" ->
                  IF /\ r.response.directOpen
                     /\ d.isContextValid
                     /\ d.currentSelection # <<>>
                    THEN /\ requests' = Append(requests,
                                               SentBy(k, "openMultipleUrls",
                                                      d.currentSelection, "none",
                                                      r.click))
                         /\ SetInstance(k, [d EXCEPT !.recentOpen = TRUE],
                                        InstanceTimers(k))
                    ELSE UNCHANGED <<detector, page, requests>>
  /\ responses' = Tail(responses)
  /\ UNCHANGED <<backgroundVars, clickPushes, evaluated, pointer>>

\* SpecActivation: right-clicks on the link of a page without selection,
\* under the default settings, the tab of the page being activated at any
\* moment
ActivationNext ==
  \/ TabActivated
  \/ MouseDownDispatched
  \/ \E intentional \in BOOLEAN : MouseUpDispatched(intentional)
  \/ \E k \in InstanceIds : InstanceTimerFired(k)
  \/ \E href \in PageLinks : ContextMenuDispatched(href)
  \/ \E k \in InstanceIds : InstanceDebounceElapsed(k)
  \/ GetExtensionStateDelivered
  \/ /\ requests # <<>>
     /\ Head(requests).action # "getExtensionState"
     /\ RequestDelivered
     /\ UNCHANGED <<evaluated, pointer>>
  \/ InstanceResponseDelivered
  \/ \E w \in workers : TabCreated(w) /\ UNCHANGED <<detectorVars, evaluated, pointer>>
  \/ \E w \in workers : DelayElapsed(w) /\ UNCHANGED <<detectorVars, evaluated, pointer>>

SpecActivation == Init /\ [][ActivationNext]_vars

\* SpecDetector: one page with its content script under the default
\* settings; the user selects text and right-clicks on text or on a link
DetectorNext ==
  \/ \E w \in workers : TabCreated(w) /\ UNCHANGED <<detectorVars, evaluated, pointer>>
  \/ \E w \in workers : DelayElapsed(w) /\ UNCHANGED <<detectorVars, evaluated, pointer>>
  \/ \E text \in PageSelections : Select(text) /\ UNCHANGED <<evaluated, pointer>>
  \/ \E button \in Buttons : MouseDown(button) /\ UNCHANGED <<evaluated, pointer>>
  \/ \E intentional \in BOOLEAN : MouseUp(2, intentional) /\ UNCHANGED <<evaluated, pointer>>
  \/ MouseUp(0, FALSE) /\ UNCHANGED <<evaluated, pointer>>
  \/ SelectionTimerFired /\ UNCHANGED <<evaluated, pointer>>
  \/ \E href \in PageLinks : ContextMenu(href) /\ UNCHANGED <<evaluated, pointer>>
  \/ DebounceElapsed /\ UNCHANGED <<evaluated, pointer>>
  \/ RequestDelivered /\ UNCHANGED <<evaluated, pointer>>
  \/ ResponseDelivered /\ UNCHANGED <<evaluated, pointer>>

SpecDetector == Init /\ [][DetectorNext]_vars

(***************************************************************************)
(* Properties of the queue (Spec, SpecEnabled)                             *)
(***************************************************************************)
\* C1: while enableExtension is false no step (no message, no menu click,
\* no settled tabs.sendMessage of the menu handler) pushes a URL on
\* openingQueue
C1_DisabledNeverEnqueues ==
  [][~settings.enableExtension =>
       /\ enqueued' = enqueued
       /\ Len(openingQueue') <= Len(openingQueue)]_vars

\* C1, its case: the extension is disabled while a tabs.sendMessage of the
\* menu handler is unsettled, so that its catch handler, which tests
\* nothing itself, runs openMultipleUrls in the disabled state
C1_Witness ==
  /\ ~settings.enableExtension
  /\ menuSends # {}
  /\ enqueued < MaxEnqueues

\* C2: as long as enableExtension stays true at most one call of
\* tabs.create is outstanding, under every interleaving of intents, tab
\* creations and delays
C2_SingleFlightWhileEnabled ==
  Cardinality({w \in workers : w.pc = "create"}) <= 1

\* C2, its case: a burst left two URLs waiting behind an outstanding
\* tabs.create
C2_Witness ==
  /\ \E w \in workers : w.pc = "create"
  /\ Len(openingQueue) >= 2

\* C3: in every reachable state, disabling and re-enabling included, at
\* most one call of tabs.create is outstanding
C3_SingleFlightAlways ==
  \A w1, w2 \in workers : (w1.pc = "create" /\ w2.pc = "create") => w1 = w2

\* C4: tabs.create is called in the order of the pushes: the enqueue
\* numbers of the calls increase
C4_Fifo ==
  \A i, j \in DOMAIN created : i < j => created[i] < created[j]

\* C4, its case: three URLs were passed to tabs.create
C4_Witness == Len(created) >= 3

\* C5: a settingsUpdated message that turns enableExtension from true to
\* false empties openingQueue in that step, and no entry that waited at
\* such a step is ever passed to tabs.create
C5_DisableDiscards ==
  [][/\ ((\E partial \in PartialSettings : SettingsUpdated(partial))
           /\ settings.enableExtension /\ ~settings'.enableExtension)
         => Len(openingQueue') = 0
     /\ \A i \in DOMAIN created' : created'[i] \notin discarded']_vars

\* C5, its case: entries waited at a disabling settingsUpdated, and after
\* re-enabling a URL pushed later was passed to tabs.create
C5_Witness ==
  /\ settings.enableExtension
  /\ \E d \in discarded : \E i \in DOMAIN created : created[i] > d

\* C6: tabs.create is never called while enableExtension is false
C6_NoCreateWhileDisabled ==
  [][Len(created') > Len(created) =>
       settings.enableExtension /\ settings'.enableExtension]_vars

\* C6, its case: the extension is disabled while a tabs.create called
\* before is outstanding and a URL is still on the queue
C6_Witness ==
  /\ ~settings.enableExtension
  /\ \E w \in workers : w.pc = "create"
  /\ openingQueue # <<>>

\* C7: every step that turns enableExtension from false to true (a
\* settingsUpdated message or a settings load) leaves openingQueue empty,
\* so that no URL pushed before it is opened after it
C7_EnableFlushes ==
  [][(~settings.enableExtension /\ settings'.enableExtension) =>
       openingQueue' = <<>>]_vars

(***************************************************************************)
(* Properties of the directLinkClick message (SpecIntents)                 *)
(***************************************************************************)
\* C8: a directLinkClick handled while enableExtension or directLinkOpen is
\* false leaves the queue as it is and answers shouldOpen = false,
\* shouldIntercept = false, whatever the URL
C8_DirectLinkClickFailsClosed ==
  [][\A url \in LinkUrls :
       (/\ DirectLinkClickHandler(url)
        /\ lastResponse' = DirectLinkClickResponse(url)
        /\ (~settings.enableExtension \/ ~settings.directLinkOpen))
       => /\ openingQueue' = openingQueue
          /\ enqueued' = enqueued
          /\ lastResponse'.shouldOpen = FALSE
          /\ lastResponse'.shouldIntercept = FALSE]_vars

\* C8, its case: a directLinkClick was answered with shouldOpen = false,
\* shouldIntercept = false by the disabled extension in direct-open mode
C8_Witness ==
  /\ lastResponse = [action |-> "directLinkClick", shouldOpen |-> FALSE,
                     shouldIntercept |-> FALSE]
  /\ ~settings.enableExtension
  /\ settings.directLinkOpen
  /\ settings.excludedDomains = <<>>

\* C9: a directLinkClick for a URL on an excluded domain (www.b.org with
\* b.org excluded), handled while enableExtension and directLinkOpen are
\* true, leaves the queue as it is and answers shouldOpen = false,
\* shouldIntercept = false
C9_ExcludedNotIntercepted ==
  [][(/\ DirectLinkClickHandler(UrlWwwB)
      /\ lastResponse' = DirectLinkClickResponse(UrlWwwB)
      /\ settings.enableExtension /\ settings.directLinkOpen
      /\ settings.excludedDomains = <<DomainB>>)
     => /\ openingQueue' = openingQueue
        /\ enqueued' = enqueued
        /\ lastResponse'.shouldOpen = FALSE
        /\ lastResponse'.shouldIntercept = FALSE]_vars

\* C10: a directLinkClick for a URL on no excluded domain, handled while
\* enableExtension and directLinkOpen are true, pushes that URL once (the
\* worker, when started by the push, takes the head of the queue at once)
\* and answers shouldOpen = true, shouldIntercept = true
C10_DirectLinkClickEnqueuesOnce ==
  [][\A url \in LinkUrls :
       (/\ DirectLinkClickHandler(url)
        /\ lastResponse' = DirectLinkClickResponse(url)
        /\ settings.enableExtension /\ settings.directLinkOpen
        /\ ~(url = UrlWwwB /\ DomainB \in Range(settings.excludedDomains)))
       => LET pushed == Append(openingQueue, [url |-> url, n |-> enqueued + 1])
          IN  /\ enqueued' = enqueued + 1
              /\ \/ openingQueue' = pushed /\ created' = created
                 \/ /\ openingQueue' = Tail(pushed)
                    /\ created' = Append(created, Head(pushed).n)
              /\ lastResponse'.shouldOpen = TRUE
              /\ lastResponse'.shouldIntercept = TRUE]_vars

\* C10, its case: a directLinkClick was answered with shouldOpen = true,
\* shouldIntercept = true and its URL waits behind an outstanding tabs.create
C10_Witness ==
  /\ lastResponse = [action |-> "directLinkClick", shouldOpen |-> TRUE,
                     shouldIntercept |-> TRUE]
  /\ openingQueue # <<>>
  /\ openingQueue[Len(openingQueue)].n = enqueued
  /\ \E w \in workers : w.pc = "create"

(***************************************************************************)
(* Properties of the checkSelection and openMultipleUrls messages          *)
(* (SpecSelection)                                                         *)
(***************************************************************************)
\* C11: in every reachable state, whatever the settings, the response the
\* checkSelection handler sends for a text has showContextMenu =
\* (enableExtension and the text is a candidate URL and not directLinkOpen)
\* and directOpen = (enableExtension and the text is a candidate URL and
\* directLinkOpen), the candidate test being isValidUrl with its default
\* profile whatever urlPatternType is; the two fields are never both true
\* and both are false while enableExtension is false
C11_CheckSelectionResponse ==
  \A text \in SelectionTexts :
    \E candidate \in {isValidUrl(text, "standard")} :
      \E response \in {CheckSelectionResponse(text)} :
        /\ response.showContextMenu =
             (settings.enableExtension /\ candidate /\ ~settings.directLinkOpen)
        /\ response.directOpen =
             (settings.enableExtension /\ candidate /\ settings.directLinkOpen)
        /\ ~(response.showContextMenu /\ response.directOpen)
        /\ ~settings.enableExtension =>
             (~response.showContextMenu /\ ~response.directOpen)

\* C11, its case: a checkSelection was answered showContextMenu = true
\* while urlPatternType is strict and directLinkOpen is off
C11_Witness ==
  /\ lastResponse = [action |-> "checkSelection", showContextMenu |-> TRUE,
                     directOpen |-> FALSE]
  /\ settings.urlPatternType = "strict"
  /\ ~settings.directLinkOpen

\* C12: the checkSelection response reports directOpen = true only if the
\* handler ran openMultipleUrls on the text while handling that message,
\* whatever supportMultipleUrls and urlPatternType are
C12_DirectOpenMeansOpened ==
  \A text \in SelectionTexts :
    CheckSelectionResponse(text).directOpen
      => CheckSelectionEffect(text) = openMultipleUrls(Arbiter, text)


(***************************************************************************)
(* Properties of the content script (SpecDetector)                         *)
(***************************************************************************)
\* C13: for one right-click on a text selection, each candidate line of the
\* selection is pushed on the queue at most once in total, counting the
\* checkSelection of the selection timer, the checkSelection of the
\* context-menu handler and the openMultipleUrls that follows a response
\* with directOpen; every selection of PageSelections has at most one
\* candidate line, so no right-click accounts for more than one push
C13_EachLineOncePerClick ==
  \A click \in DOMAIN clickPushes : clickPushes[click] <= 1

\* the URL "https://example.com"
UrlExample == Https \o <<"e","x","a","m","p","l","e",".","c","o","m">>

\* the queue, its flag and its workers q are the present ones after urls were
\* pushed in this order, one entry each: all of them wait, or the worker the
\* first push started has taken the head of the queue
Appends(q, urls) ==
  \E all \in {openingQueue
                \o [i \in 1..Len(urls) |-> [url |-> urls[i], n |-> enqueued + i]]} :
    /\ q.enqueued = enqueued + Len(urls)
    /\ \/ q.queue = all /\ q.created = created
       \/ /\ all # <<>>
          /\ q.queue = Tail(all)
          /\ q.created = Append(created, Head(all).n)

\* C14: with urlPatternType 'standard', directLinkOpen, supportMultipleUrls
\* and enableExtension true (and no excluded domain), a checkSelection for
\* the text "visit example.com today" is answered showContextMenu = false,
\* directOpen = true and pushes exactly one URL, https://example.com
C14_VisitScenario ==
  (/\ settings.enableExtension
   /\ settings.directLinkOpen
   /\ settings.supportMultipleUrls
   /\ settings.urlPatternType = "standard"
   /\ settings.excludedDomains = <<>>)
  => /\ CheckSelectionResponse(TextVisit)
          = [action |-> "checkSelection", showContextMenu |-> FALSE,
             directOpen |-> TRUE]
     /\ Appends(CheckSelectionEffect(TextVisit), <<UrlExample>>)

\* the URLs of the lines of text that are candidates under the configured
\* pattern type and on no excluded domain, in line order
OpenableLines(text) ==
  LET NotExcluded(url) == ~isExcludedDomain(url, settings.excludedDomains)
  IN  SelectSeq(extractUrls(text, settings.urlPatternType), NotExcluded)

\* C15: with enableExtension, directLinkOpen and supportMultipleUrls true, a
\* checkSelection for a text of several lines pushes every line that is a
\* candidate URL on no excluded domain, whichever line comes first
C15_EveryCandidateLineOpens ==
  (settings.enableExtension /\ settings.directLinkOpen /\ settings.supportMultipleUrls)
  => \A text \in SelectionTexts :
       Appends(CheckSelectionEffect(text), OpenableLines(text))

\* C16: in every reachable state, whatever the settings, an openMultipleUrls
\* message is answered success = (enableExtension and supportMultipleUrls),
\* and when either setting is false the handler leaves the queue, its flag
\* and its workers as they are (nothing is pushed)
C16_OpenMultipleGuarded ==
  \A text \in SelectionTexts :
    /\ OpenMultipleUrlsResponse(text).success
         = (settings.enableExtension /\ settings.supportMultipleUrls)
    /\ ~(settings.enableExtension /\ settings.supportMultipleUrls)
         => OpenMultipleUrlsEffect(text) = Arbiter

\* C16, its cases: an openMultipleUrls message was refused with
\* success = false while enableExtension was true and supportMultipleUrls
\* false, after an earlier message had pushed a URL
C16_Witness ==
  /\ lastResponse = [action |-> "openMultipleUrls", success |-> FALSE]
  /\ settings.enableExtension
  /\ ~settings.supportMultipleUrls
  /\ enqueued > 0

(***************************************************************************)
(* Properties of the accepted openMultipleUrls messages (SpecMultiOpen)    *)
(***************************************************************************)
\* C17: for every text of an accepted openMultipleUrls message, the URLs
\* pushed on the queue are exactly the normalized lines that are candidates
\* under the configured pattern type and on no excluded domain, behind the
\* entries already waiting, in line order, a line that occurs twice being
\* pushed twice
C17_MultiOpenAppendsLines ==
  OpenMultipleAccepted
    => \A text \in MultiOpenTexts :
         Appends(OpenMultipleUrlsEffect(text), OpenableLines(text))

\* C17, its case: an accepted openMultipleUrls message pushed the same URL
\* twice, and both entries wait behind an earlier one that is being opened
C17_Witness ==
  /\ lastResponse = [action |-> "openMultipleUrls", success |-> TRUE]
  /\ Len(openingQueue) = 2
  /\ openingQueue[1].url = openingQueue[2].url
  /\ openingQueue[2].n = openingQueue[1].n + 1
  /\ openingQueue[2].n = enqueued

\* C19: the candidate line "b.org x" is normalized to "https://b.org x",
\* whose host name cannot be parsed; it is excluded under no exclusion list
\* (not even the list that holds b.org), an accepted openMultipleUrls
\* message pushes it like any URL that is not excluded whenever the line is
\* a candidate under the configured pattern type, and a
\* directLinkClick for it is answered like one for a URL that is not
\* excluded: the handlers complete, the parse error stays in isExcludedDomain
C19_UnparsableNotExcluded ==
  \E url \in {normalizeUrl(TextTrailingWord)} :
    /\ ~ParseHostname(url).ok
    /\ \A excludedDomains \in ExclusionLists : ~isExcludedDomain(url, excludedDomains)
    /\ DirectLinkOpens(url) = ShouldIntercept
    /\ (OpenMultipleAccepted /\ isValidUrl(TextTrailingWord, settings.urlPatternType))
         => Appends(OpenMultipleUrlsEffect(TextTrailingWord), <<url>>)

\* C19, its case: b.org is excluded and an accepted openMultipleUrls message
\* has pushed the unparsable "https://b.org x", which waits in the queue
C19_Witness ==
  /\ lastResponse = [action |-> "openMultipleUrls", success |-> TRUE]
  /\ settings.excludedDomains = <<DomainB>>
  /\ openingQueue # <<>>
  /\ openingQueue[Len(openingQueue)] =
       [url |-> Https \o DomainB \o <<" ","x">>, n |-> enqueued]

(***************************************************************************)
(* Properties of the URL helpers (SpecLexer)                               *)
(***************************************************************************)
\* the host name host, a leading "www." stripped, equals the entry, a
\* leading "www." stripped, or ends with "." followed by it
MatchesEntry(host, entry) ==
  \E h \in {StripWww(host)}, e \in {StripWww(entry)} :
    \/ h = e
    \/ /\ Len(h) > Len(e)
       /\ SubSeq(h, Len(h) - Len(e), Len(h)) = <<".">> \o e

\* C18: a URL whose host name can be parsed is excluded iff its host name,
\* a leading "www." stripped, equals or ends with "." followed by some entry
\* of the exclusion list, a leading "www." stripped; with the entry
\* example.com, https://example.com/x, https://www.example.com and
\* https://sub.example.com are excluded and https://notexample.com is not
C18_ExclusionWwwInsensitiveSuffixExact ==
  evaluated.fn = "isExcludedDomain"
    => \E parsed \in {ParseHostname(evaluated.url)} :
         /\ parsed.ok
              => evaluated.output =
                   (\E i \in DOMAIN evaluated.excludedDomains :
                      MatchesEntry(parsed.hostname, evaluated.excludedDomains[i]))
         /\ (/\ evaluated.excludedDomains = <<DomainExample>>
             /\ evaluated.url \in {UrlExample \o <<"/","x">>,
                                   Https \o <<"w","w","w",".">> \o DomainExample,
                                   Https \o <<"s","u","b",".">> \o DomainExample})
              => evaluated.output = TRUE
         /\ (/\ evaluated.excludedDomains = <<DomainExample>>
             /\ evaluated.url = Https \o <<"n","o","t">> \o DomainExample)
              => evaluated.output = FALSE

\* C18, its case: isExcludedDomain has answered true for
\* https://sub.example.com under the list that holds www.example.com
C18_Witness ==
  evaluated = [fn |-> "isExcludedDomain",
               url |-> Https \o <<"s","u","b",".">> \o DomainExample,
               excludedDomains |-> <<<<"w","w","w",".">> \o DomainExample>>,
               output |-> TRUE]

\* C20: normalizeUrl applied to its own result returns that result, for
\* every string: with white space around it, with a localhost form, with a
\* scheme that is not http
C20_NormalizeIdempotent ==
  evaluated.fn = "normalizeUrl"
    => normalizeUrl(evaluated.output) = evaluated.output

\* C20, its case: normalizeUrl was called on " localhost:80 " and returned
\* "http://localhost:80"
C20_Witness ==
  /\ evaluated.fn = "normalizeUrl"
  /\ evaluated.url = <<" ","l","o","c","a","l","h","o","s","t",":","8","0"," ">>
  /\ evaluated.output = <<"h","t","t","p",":","/","/","l","o","c","a","l",
                          "h","o","s","t",":","8","0">>

\* the entries expected of the lines, taken one by one in their order: each
\* line that, trimmed, is not empty and is accepted under the pattern type
\* gives one entry, the trimmed line normalized
RECURSIVE EntriesOf(_, _)
EntriesOf(lines, patternType) ==
  IF lines = <<>>
    THEN <<>>
    ELSE (IF Trim(Head(lines)) # <<>> /\ isValidUrl(Trim(Head(lines)), patternType)
            THEN <<normalizeUrl(Trim(Head(lines)))>>
            ELSE <<>>)
           \o EntriesOf(Tail(lines), patternType)

\* C21: for every text (lines joined by \n or \r\n) and pattern type,
\* extractUrls returns one entry for each line that, trimmed, is not empty
\* and is accepted by isValidUrl under that pattern type, in the order of
\* the lines; no such line is dropped or moved, and equal lines give
\* separate entries
C21_ExtractKeepsLinesInOrder ==
  evaluated.fn = "extractUrls"
    => evaluated.output = EntriesOf(evaluated.lines, evaluated.patternType)

\* C21, its case: extractUrls was called on "a.io/x", "hi", "a.io/x" joined
\* by \r\n under 'standard' and returned https://a.io/x twice
C21_Witness ==
  /\ evaluated.fn = "extractUrls"
  /\ evaluated.lines = <<TextPath, <<"h","i">>, TextPath>>
  /\ evaluated.break = <<"\r","\n">>
  /\ evaluated.patternType = "standard"
  /\ evaluated.output = <<Https \o TextPath, Https \o TextPath>>

StatedIntentional ==
  /\ SquaredDifference(pointer.up.x, pointer.down.x)
       + SquaredDifference(pointer.up.y, pointer.down.y)
       < CLICK_DISTANCE_THRESHOLD * CLICK_DISTANCE_THRESHOLD
  /\ pointer.up.at - pointer.down.at < CLICK_TIME_THRESHOLD
  /\ \/ Contains(pointer.up.target, pointer.down.target)
     \/ Contains(pointer.down.target, pointer.up.target)

\* C23 as stated: after the mouseup of a right-click, the click is flagged
\* intentional exactly when the mouseup is less than 5 px from the mousedown,
\* less than 300 ms after it, and on the same target or an ancestor or
\* descendant of it, whatever mousemove events came between the two
C23_ClassifiedByDistanceTimeTarget ==
  (pointer.up.at >= 0 /\ pointer.down.at >= 0)
    => (detector.isIntentionalRightClick <=> StatedIntentional)

\* the message is an open attempt: directLinkClick, openMultipleUrls, or a
\* checkSelection on which the background script opens the text itself
OpenAttempt(m) ==
  \/ m.action \in {"directLinkClick", "openMultipleUrls"}
  \/ /\ m.action = "checkSelection"
     /\ CheckSelectionDirectOpen(m.text)
     /\ settings.supportMultipleUrls

\* C24 as stated: while less than DEBOUNCE_THRESHOLD ms have passed since
\* lastOpenTime was set by an open (a confirmed directLinkClick or
\* processMultipleUrls), the page sends no directLinkClick, no
\* openMultipleUrls and no checkSelection that the background script opens
\* directly
C24_NoOpenAttemptWithinDebounce ==
  [][(detector.recentOpen /\ Len(requests') > Len(requests))
       => ~OpenAttempt(requests'[Len(requests')])]_vars

\* C25 as stated: no shouldOpenLink and no directLinkClick message is sent
\* for a link whose href is a javascript: pseudo-URL, "#", about:blank, a
\* chrome://, chrome-extension://, about: or moz-extension:// URL, or the
\* page's URL followed by "#"
C25_RejectedLinkSendsNoIntent ==
  \A i \in DOMAIN requests :
    requests[i].action \in {"shouldOpenLink", "directLinkClick"}
      => requests[i].text \notin RejectedHrefs

\* C26: a tabs.create call that reports an error (runtime.lastError set in
\* its callback) is not fatal and not retried: the failed entry is not put
\* back into the queue, tabs.create is called once for it, the entries are
\* still taken in the order of their enqueueing with none left out, and as
\* long as entries wait a worker is there to take the next one
C26_FailedCreateNotFatalNotRetried ==
  /\ \A i \in DOMAIN openingQueue : openingQueue[i].n \notin failed
  /\ created = [i \in 1..Len(created) |-> i]
  /\ enqueued = Len(created) + Len(openingQueue)
  /\ openingQueue # <<>> => (isProcessingQueue /\ workers # {})
  /\ isProcessingQueue <=> workers # {}

\* C26, its case: the first tabs.create reported an error, a URL was
\* enqueued after that, and tabs.create has been called for the second and
\* the third URL, which waits for its callback
C26_Witness ==
  /\ 1 \in failed
  /\ created = <<1, 2, 3>>
  /\ [pc |-> "create", n |-> 3] \in workers
  /\ openingQueue = <<>>

\* C27 as stated: once the content script has set isContextValid to false,
\* none of its event handlers, pending selection timers or pending response
\* callbacks calls runtime.sendMessage
C27_NoSendAfterInvalidation ==
  page.lateAttempts = 0

\* C28 as stated: if the settings stop changing, then from some moment on
\* the isExtensionEnabled of the content script equals enableExtension of
\* the background script, whatever the interleaving of the fetch of the
\* content script, the settings loads and the notifications
C28_EnabledFlagConverges ==
  (<>[][settings' = settings]_vars)
     => <>[](detector.isExtensionEnabled = settings.enableExtension)

\* C29 as stated, for a mouseup and the contextmenu event that follows it:
\* when handleContextMenu sends its intent, the selection check of the
\* mouseup has been sent already (no timer of that mouseup is still pending
\* with a selection to send)
C29_IntentsInEventOrder ==
  [][(/\ page.phase = "up"
      /\ page'.phase = "idle"
      /\ Len(requests') > Len(requests))
       => ~(page.click \in Range(page.timers) /\ Trim(page.selection) # <<>>)]_vars

\* C30 as stated: the contextmenu event that is suppressed through
\* handledRightClick is the one of the right-click whose interception the
\* background script confirmed, never the one of a later right-click
C30_SuppressedMenuIsOfConfirmedClick ==
  [][(detector.handledRightClick /\ ~detector'.handledRightClick)
       => detector.handledClick = page.click]_vars

\* the step is the callback of a confirmed interception, which sets
\* handledRightClick
SetsHandledRightClick ==
  /\ responses # <<>>
  /\ responses' = Tail(responses)
  /\ Head(responses).callback \in {"direct", "linkRightClick"}
  /\ ResponseShouldOpen(Head(responses).response)

\* the step is a contextmenu event reaching handleContextMenu
ContextMenuEvent ==
  /\ page.phase \in {"down", "up"}
  /\ page'.phase \in {"menu", "idle"}

\* C31 as stated: every setting of handledRightClick is consumed by a
\* contextmenu event of its own: the contextmenu event that finds the flag
\* set clears it and sends no message, and a confirmation that sets the flag
\* finds it clear, the setting before it having been consumed, so that the
\* suppressed contextmenu events are as many as the settings of the flag
C31_EachSettingSuppressesOneMenu ==
  [][/\ (ContextMenuEvent /\ detector.handledRightClick)
          => (~detector'.handledRightClick /\ requests' = requests)
     /\ SetsHandledRightClick => ~detector.handledRightClick]_vars

\* C32 as stated: after every mousedown of the right button
\* handledRightClick is false, and mouseDownTarget, mouseDownTime and the
\* stored position are the target, the time and the position of that
\* mousedown
C32_MouseDownClearsFlagRecordsDown ==
  [][\A position \in PointerPositions, target \in PageTargets :
       handleMouseDown(2, position, target)
         => /\ ~detector'.handledRightClick
            /\ pointer'.mouseDownTarget = target
            /\ pointer'.mouseDownTime = pointer.now
            /\ pointer'.lastMouseX = position[1]
            /\ pointer'.lastMouseY = position[2]]_vars

\* C33 as stated: whenever enableExtension is false openingQueue is empty,
\* whether a settingsUpdated message or the callback of loadSettings set it
\* to false, so that a worker leaving its loop on enableExtension = false
\* leaves no URL on the queue
C33_DisabledQueueEmpty ==
  ~settings.enableExtension => openingQueue = <<>>

\* C34 as stated: one right-click on a link has at most one directLinkClick
\* message reach the background script, however often the tab of the page
\* was activated before: never are two directLinkClick messages of one
\* click on their way, and, each directLinkClick handled under the default
\* settings pushing its URL, at most one URL is pushed for one click
C34_OneDirectLinkClickPerClick ==
  /\ \A i, j \in DOMAIN requests :
       (/\ requests[i].action = "directLinkClick"
        /\ requests[j].action = "directLinkClick"
        /\ requests[i].click = requests[j].click) => i = j
  /\ \A c \in DOMAIN clickPushes : clickPushes[c] <= 1

\* the queue, its flag, its workers and the settings are left as they are
QueueAndSettingsUnchanged ==
  /\ openingQueue' = openingQueue
  /\ isProcessingQueue' = isProcessingQueue
  /\ workers' = workers
  /\ enqueued' = enqueued
  /\ created' = created
  /\ settings' = settings

\* C35: the messages shouldOpenLink, getExtensionState and
\* getAdvancedSettings are read-only: handling one changes neither the
\* queue, nor isProcessingQueue, nor any setting, and shouldOpenLink answers
\* shouldIntercept = enableExtension and directLinkOpen without pushing
\* the URL
C35_QueriesReadOnly ==
  [][/\ \A url \in LinkUrls :
          (ShouldOpenLinkHandler(url) /\ lastResponse' = ShouldOpenLinkResponse(url))
            => /\ QueueAndSettingsUnchanged
               /\ lastResponse'.shouldIntercept
                    = (settings.enableExtension /\ settings.directLinkOpen)
     /\ (GetExtensionStateHandler /\ lastResponse' = GetExtensionStateResponse)
          => QueueAndSettingsUnchanged
     /\ (GetAdvancedSettingsHandler /\ lastResponse' = GetAdvancedSettingsResponse)
          => QueueAndSettingsUnchanged]_vars

\* C35, its case: a shouldOpenLink was answered shouldIntercept = true
\* while a worker was running and a URL was waiting, and the URL of the
\* message was not pushed
C35_Witness ==
  /\ lastResponse = [action |-> "shouldOpenLink", shouldIntercept |-> TRUE]
  /\ isProcessingQueue
  /\ Len(openingQueue) = 1
  /\ enqueued = 2

C37_OnePushPerRequestId ==
  \A requestId \in RequestIds : page.requestPushes[requestId] <= 1

\* C38 as stated: when every tabs.create call completes, every delay timer
\* fires and enableExtension is true from some moment on, the URLs on the
\* queue are passed to tabs.create: the queue does not stay non-empty for
\* ever
C38_QueueDrains ==
  (<>[]settings.enableExtension) => []<>(openingQueue = <<>>)


\* C39 as stated: at most one processUrlQueue loop is active, and while
\* isProcessingQueue is false no loop is suspended at the tabs.create
\* await or at the delay, so that queueUrlForOpening starts a loop only
\* when there is none
C39_OneWorkerLoop ==
  /\ Cardinality(workers) <= 1
  /\ ~isProcessingQueue => workers = {}


\* the message the step sends, when the step is a runtime.sendMessage of the
\* detector
Sent == requests'[Len(requests')]

\* the step sends an open intent on account of the newest right-click
SendsOpenIntent ==
  /\ Len(requests') = Len(requests) + 1
  /\ Sent.action \in {"directLinkClick", "openMultipleUrls"}
  /\ Sent.click = page.click

\* C40 as stated: a right-click whose mousedown/mouseup pair handleMouseUp
\* has classified as not intentional (a drag or a long press) sends no
\* directLinkClick and no openMultipleUrls
C40_OnlyIntentionalClicksOpen ==
  [][~ /\ SendsOpenIntent
       /\ page.phase \in {"up", "idle"}
       /\ ~detector.isIntentionalRightClick]_vars

=============================================================================
